---- MODULE Spec2Model ----
(***************************************************************************)
(* USB DFU 1.1 stack of usbd-dfu with the nucleo-f401re bootloader:        *)
(*   - DFUModeClass   (usbd-dfu/src/mode.rs)         the DFU-mode FSM      *)
(*   - DFUModeImpl    (src/nucleo_f401re/dfu/mode.rs) the download driver  *)
(*   - Memory, Sector (src/nucleo_f401re/bootloader.rs) the flash engine   *)
(*                                                                         *)
(* Geometry.  The flash of the part is 512 KiB in eight sectors of         *)
(* 16,16,16,16,64,128,128,128 KiB.  The model keeps the flash base and the *)
(* shape of the map and divides every offset by 2^12, so the sectors are   *)
(* 4,4,4,4,16,32,32,32 bytes and the shifts of Sector::try_from (>> 14 and *)
(* >> 17) become >> 2 and >> 5.  The manifest record keeps its real size   *)
(* (4 + 20 bytes); its alignment and the transfer size are scaled too.     *)
(***************************************************************************)
EXTENDS Integers, Sequences, FiniteSets, TLC

VARIABLES
    state,      \* DFUModeClass.state            (usbd-dfu/src/mode.rs:25)
    handler,    \* DFUModeImpl.state + Program   (dfu/mode.rs:279-291, 64-68)
    memory,     \* Memory.state                  (bootloader.rs:69-82)
    flash,      \* content of the internal flash, byte per address
    hw,         \* flash controller: BSY, status flags, operation in flight
    boot,       \* what the core does: "dfu" loop, "app", "panic", "off"
    caps,       \* the Capabilities constants the build was made with
    hist,       \* history of the driver's current Program (observation only)
    rt          \* DFURuntimeClass of the application (usbd-dfu/src/runtime.rs:19-23)

vars == <<state, handler, memory, flash, hw, boot, caps, hist, rt>>

----------------------------------------------------------------------------
(* Bounds of the model *)

\* number of images the host may choose from when it starts a download
NumImages == 2

\* DFUModeClass::poll is handed an elapsed time of MinElapsed or POLL_TIMEOUT
MinElapsed == 6

\* number of Programs the driver may start (DNLOAD accepted with the driver
\* Idle) in one run of the bootloader
MaxDownloads == 1

\* length of the image a previous run has left in one of the initial flashes
OldLength == 12

\* addresses looked up below FLASH_BASE and from FLASH_END on
Margin == 6

\* largest wValue the host sends with DFU_DETACH
MaxDetach == 5

----------------------------------------------------------------------------
(* Program constants *)

FLASH_BASE == 134217728                      \* 0x0800_0000
SECTOR_UNIT == 4                             \* 16 KiB >> 12
SECTORS ==
    << <<FLASH_BASE, SECTOR_UNIT>>,
       <<FLASH_BASE + SECTOR_UNIT, SECTOR_UNIT>>,
       <<FLASH_BASE + 2 * SECTOR_UNIT, SECTOR_UNIT>>,
       <<FLASH_BASE + 3 * SECTOR_UNIT, SECTOR_UNIT>>,
       <<FLASH_BASE + 4 * SECTOR_UNIT, 4 * SECTOR_UNIT>>,
       <<FLASH_BASE + 8 * SECTOR_UNIT, 8 * SECTOR_UNIT>>,
       <<FLASH_BASE + 16 * SECTOR_UNIT, 8 * SECTOR_UNIT>>,
       <<FLASH_BASE + 24 * SECTOR_UNIT, 8 * SECTOR_UNIT>> >>
LAST_SECTOR == 7
FLASH_END == FLASH_BASE + 32 * SECTOR_UNIT                \* 0x0808_0000 scaled
APPLICATION_REGION_START == FLASH_BASE + 2 * SECTOR_UNIT  \* 0x0800_8000 scaled
HASH_LENGTH == 20
MANIFEST_SIZE == 4 + HASH_LENGTH             \* size_of::<Manifest>()
MANIFEST_ALIGN == 8                          \* 128 in the source
MANIFEST_SIZE_ALIGNED ==
    ((MANIFEST_SIZE + (MANIFEST_ALIGN - 1)) \div MANIFEST_ALIGN) * MANIFEST_ALIGN
MANIFEST_REGION_START == FLASH_END - MANIFEST_SIZE_ALIGNED
APPLICATION_LENGTH == MANIFEST_REGION_START - APPLICATION_REGION_START
TRANSFER_SIZE == 8                           \* 128 in the source
DETACH_TIMEOUT == 3                          \* 50 in the source
POLL_TIMEOUT == 10
\* impl_capabilities! of the board
BoardCaps ==
    [IS_MANIFESTATION_TOLERANT |-> TRUE, CAN_UPLOAD |-> TRUE, CAN_DOWNLOAD |-> TRUE]
ERASED == 255

Addrs == FLASH_BASE .. (FLASH_END - 1)
Min(a, b) == IF a < b THEN a ELSE b

\* usbd_dfu::Error as u8
ErrorCode(e) ==
    CASE e = "Target" -> 1 [] e = "File" -> 2 [] e = "Write" -> 3
      [] e = "Erase" -> 4 [] e = "CheckErased" -> 5 [] e = "Programming" -> 6
      [] e = "Verify" -> 7 [] e = "Address" -> 8 [] e = "NotDone" -> 9
      [] e = "Firmware" -> 10 [] e = "Vendor" -> 11 [] e = "UsbReset" -> 12
      [] e = "PowerOnReset" -> 13 [] e = "Unknown" -> 14 [] e = "StalledPkt" -> 15

\* From<State> for u8
StateCode(st) ==
    CASE st.s = "AppIdle" -> 0 [] st.s = "AppDetach" -> 1 [] st.s = "DfuIdle" -> 2
      [] st.s = "DfuDnloadSync" -> 3 [] st.s = "DfuDnloadBusy" -> 4
      [] st.s = "DfuDnloadIdle" -> 5 [] st.s = "DfuManifestSync" -> 6
      [] st.s = "DfuManifest" -> 7 [] st.s = "DfuManifestWaitReset" -> 8
      [] st.s = "DfuUploadIdle" -> 9 [] st.s = "DfuError" -> 10

St(s) == [s |-> s, t |-> 0, e |-> "None"]
StT(s, t) == [s |-> s, t |-> t, e |-> "None"]
StErr(e) == [s |-> "DfuError", t |-> 0, e |-> e]

----------------------------------------------------------------------------
(* Sector map (bootloader.rs) *)

NoSector == 0 - 1

\* a conversion that takes every sector for one of SECTOR_UNIT bytes
SectorOfUniform(address) ==
    IF address < FLASH_BASE \/ address >= FLASH_END THEN NoSector
    ELSE (address \div SECTOR_UNIT) % 16

\* TryFrom<usize> for Sector: the sector id, or NoSector for Err(Address)
SectorOf(address) ==
    IF address < FLASH_BASE THEN NoSector
    ELSE IF address < FLASH_BASE + 4 * SECTOR_UNIT
        THEN (address \div SECTOR_UNIT) % 16
    ELSE IF address < FLASH_BASE + 8 * SECTOR_UNIT THEN 4
    ELSE IF address < FLASH_END
        THEN ((address \div (8 * SECTOR_UNIT)) % 16) + 4
    ELSE NoSector

\* Iterator for Sector with the bound one short: the last sector is never reached
NextSectorShort(s) == IF s < LAST_SECTOR - 1 THEN s + 1 ELSE NoSector

\* Iterator for Sector: the next sector id, or NoSector for None
NextSector(s) == IF s < LAST_SECTOR THEN s + 1 ELSE NoSector

\* Sector::region as a set of byte addresses
Region(s) == SECTORS[s + 1][1] .. (SECTORS[s + 1][1] + SECTORS[s + 1][2] - 1)

\* Sector::is_erased on flash content f
IsErased(f, s) == \A a \in Region(s) : f[a] = ERASED

----------------------------------------------------------------------------
(* Bytes, words, hash and manifest (dfu/mod.rs, dfu/mode.rs) *)

Slice(f, a, n) == [i \in 1 .. n |-> f[a + i - 1]]
SubSeqFrom(q, from) == SubSeq(q, from + 1, Len(q))     \* &q[from..]
Zeros(n) == [i \in 1 .. n |-> 0]

\* a little-endian u32 as <<high half, low half>>
U32(b) == <<b[3] + 256 * b[4], b[1] + 256 * b[2]>>
U32Of(n) == <<n \div 65536, n % 65536>>
U32Less(x, y) == x[1] < y[1] \/ (x[1] = y[1] /\ x[2] < y[2])
U32In(x, lo, hi) == ~U32Less(x, lo) /\ U32Less(x, hi)      \* (lo..hi).contains(x)
LeBytes(n) ==
    <<n % 256, (n \div 256) % 256, (n \div 65536) % 256, (n \div 16777216) % 256>>

\* sum over positions lo..hi of the bytes, each weighted by a power of its position
RECURSIVE Weighted(_, _, _, _)
Weighted(bytes, lo, hi, pow) ==
    IF lo > hi THEN 0
    ELSE IF lo = hi THEN (bytes[lo] + 1) * (IF pow = 1 THEN lo ELSE lo * lo + 1)
    ELSE LET mid == (lo + hi) \div 2
         IN  Weighted(bytes, lo, mid, pow) + Weighted(bytes, mid + 1, hi, pow)

\* ApplicationRef::compute_hash: a HASH_LENGTH-byte digest of the bytes and of
\* their number (the SHA-1 of the source, abstracted to two weighted sums)
ComputeHash(bytes) ==
    LET h1 == Weighted(bytes, 1, Len(bytes), 1) % 65521
        h2 == Weighted(bytes, 1, Len(bytes), 2) % 65521
    IN  [k \in 1 .. HASH_LENGTH |->
            CASE k = 1 -> h1 % 256 [] k = 2 -> h1 \div 256
              [] k = 3 -> h2 % 256 [] k = 4 -> h2 \div 256
              [] k = 5 -> Len(bytes) % 256 [] OTHER -> 0]

\* a slice that ignores the length of the manifest
CappedLengthWhole(len32) == APPLICATION_LENGTH

\* usize::min(APPLICATION_LENGTH, length) for a length read from flash
CappedLength(len32) ==
    IF U32Less(U32Of(APPLICATION_LENGTH), len32) THEN APPLICATION_LENGTH
    ELSE len32[2]

\* Manifest::get: the record at MANIFEST_REGION_START
ManifestAt(f) ==
    [length |-> U32(Slice(f, MANIFEST_REGION_START, 4)),
     hash |-> Slice(f, MANIFEST_REGION_START + 4, HASH_LENGTH)]

\* ApplicationRef::get_with_length(length).0 for a length that fits a usize
ApplicationRef(f, length) ==
    Slice(f, APPLICATION_REGION_START, Min(APPLICATION_LENGTH, length))

\* transmute::<Manifest, [u8; size_of::<Manifest>()]>
ManifestBytes(length, hash) == LeBytes(length) \o hash

SRAM_START == <<8192, 0>>              \* 0x2000_0000
SRAM_END == <<8194, 0>>                \* 0x2002_0000

\* a check that trusts the vector table alone
IsFirmwareValidNoHash(f, pinLow) ==
    /\ ~pinLow
    /\ U32In(U32(Slice(f, APPLICATION_REGION_START, 4)), SRAM_START, SRAM_END)
    /\ U32In(U32(Slice(f, APPLICATION_REGION_START + 4, 4)),
             U32Of(APPLICATION_REGION_START), U32Of(MANIFEST_REGION_START))

\* a check that does not read the boot_mode pin
IsFirmwareValidIgnoresPin(f, pinLow) ==
    /\ ComputeHash(ApplicationRef(f, CappedLength(ManifestAt(f).length)))
          = ManifestAt(f).hash
    /\ U32In(U32(Slice(f, APPLICATION_REGION_START, 4)), SRAM_START, SRAM_END)
    /\ U32In(U32(Slice(f, APPLICATION_REGION_START + 4, 4)),
             U32Of(APPLICATION_REGION_START), U32Of(MANIFEST_REGION_START))

\* DFUModeImpl::is_firmware_valid on flash content f with the boot_mode pin
IsFirmwareValid(f, pinLow) ==
    LET manifest == ManifestAt(f)
        app == ApplicationRef(f, CappedLength(manifest.length))
        sp == U32(Slice(f, APPLICATION_REGION_START, 4))
        rst == U32(Slice(f, APPLICATION_REGION_START + 4, 4))
    IN  IF pinLow THEN FALSE
        ELSE IF ComputeHash(app) = manifest.hash
            THEN U32In(sp, SRAM_START, SRAM_END)
                 /\ U32In(rst, U32Of(APPLICATION_REGION_START),
                          U32Of(MANIFEST_REGION_START))
        ELSE FALSE

\* a width that keeps 3 for a slice of three bytes at a word boundary
ToWriteUnnormalized(addr, srcLen) ==
    IF addr % 2 = 1 THEN 1
    ELSE IF (addr \div 2) % 2 = 1 THEN 2
    ELSE Min(srcLen, 4)

\* width of the word Memory::program writes at addr from a slice of srcLen
ToWrite(addr, srcLen) ==
    LET w == IF addr % 2 = 1 THEN 1
             ELSE IF (addr \div 2) % 2 = 1 THEN 2
             ELSE Min(srcLen, 4)
    IN  IF w = 3 THEN 2 ELSE w

----------------------------------------------------------------------------
(* Inputs of the model: images the host downloads, flash contents at boot *)

\* byte i (from 0) of image img: image 1 starts with a vector table (stack
\* pointer 0x2000_0000, reset vector APPLICATION_REGION_START + 1)
ImageByte(img, i) ==
    IF img = 1
    THEN CASE i = 3 -> 32
           [] i = 4 -> (APPLICATION_REGION_START + 1) % 256
           [] i = 7 -> 8
           [] i \in {0, 1, 2, 5, 6} -> 0
           [] OTHER -> (i * 7 + 3) % 251
    ELSE (168 + img) % 256

ImageBlock(img, from, n) == [i \in 1 .. n |-> ImageByte(img, from + i - 1)]

BOOTLOADER_BYTE == 66

BlankFlash ==
    [a \in Addrs |-> IF a < APPLICATION_REGION_START THEN BOOTLOADER_BYTE ELSE ERASED]

\* the flash as a completed download of image 1, OldLength bytes long, left it
OldFlash ==
    LET img == ImageBlock(1, 0, OldLength)
        man == ManifestBytes(OldLength, ComputeHash(img))
    IN  [a \in Addrs |->
            IF a < APPLICATION_REGION_START THEN BOOTLOADER_BYTE
            ELSE IF a < APPLICATION_REGION_START + OldLength
                THEN img[a - APPLICATION_REGION_START + 1]
            ELSE IF a >= MANIFEST_REGION_START /\ a < MANIFEST_REGION_START + MANIFEST_SIZE
                THEN man[a - MANIFEST_REGION_START + 1]
            ELSE ERASED]

\* a flash written from outside: image 1 over the whole application region
\* under a manifest whose length is one more than the region holds
OversizeFlash ==
    LET img == ImageBlock(1, 0, APPLICATION_LENGTH)
        man == ManifestBytes(APPLICATION_LENGTH + 1, ComputeHash(img))
    IN  [a \in Addrs |->
            IF a < APPLICATION_REGION_START THEN BOOTLOADER_BYTE
            ELSE IF a < MANIFEST_REGION_START
                THEN img[a - APPLICATION_REGION_START + 1]
            ELSE IF a < MANIFEST_REGION_START + MANIFEST_SIZE
                THEN man[a - MANIFEST_REGION_START + 1]
            ELSE ERASED]

InitFlashes == {"blank", "old", "oversize"}
InitialFlash(name) ==
    CASE name = "old" -> OldFlash
      [] name = "oversize" -> OversizeFlash
      [] OTHER -> BlankFlash
Images == 1 .. NumImages
Elapsed == {MinElapsed, POLL_TIMEOUT}

----------------------------------------------------------------------------
(* Values shared by the machine's operations                                *)
(*                                                                          *)
(* An operation of the driver or of the engine is an operator from the      *)
(* machine mc = [handler, memory, hw, hist, panic] to [m: the machine after *)
(* the call, r: what the call returns].  The unlock outcome ul and the byte *)
(* xb found past the end of a slice are the call's hardware inputs.         *)

Pending == [k |-> "Pending", n |-> 0, e |-> "None"]       \* Poll::Pending
Ok(n) == [k |-> "Ok", n |-> n, e |-> "None"]             \* Ok(n), Ready(Ok(n))
Err(e) == [k |-> "Err", n |-> 0, e |-> e]                \* Err(e), Ready(e)
Ret(m, r) == [m |-> m, r |-> r]
Panic(m) == Ret([m EXCEPT !.panic = TRUE], Pending)      \* panic!, unreachable!

MemoryIdle ==
    [state |-> "Idle", sector |-> 0, addr |-> 0, to_write |-> 0, src |-> <<>>]
HwIdle ==
    [lock |-> TRUE, bsy |-> FALSE, wrperr |-> FALSE, operr |-> FALSE,
     op |-> "none", sector |-> 0, addr |-> 0, bytes |-> <<>>]
NoProgram ==
    [current_sector |-> 0, addr |-> 0, pstate |-> "None", data |-> <<>>,
     data_len |-> 0, wr_ptr |-> 0]
Handler(tag, program, up_ptr, up_len) ==
    [tag |-> tag, program |-> program, up_ptr |-> up_ptr, up_len |-> up_len]
HandlerIdle == Handler("Idle", NoProgram, 0, 0)
HandlerError == Handler("Error", NoProgram, 0, 0)
NoReply == [kind |-> "none", status |-> 0, timeout |-> 0, code |-> 0, data |-> <<>>]
\* the firmware a flash content f describes: the bytes its manifest covers
Described(f) == ApplicationRef(f, CappedLength(ManifestAt(f).length))

\* what has been observed of the driver's current Program, which starts on
\* flash content f
HistInit(f) ==
    [prev |-> ManifestAt(f),   \* manifest record in flash before the download
     old |-> Described(f),     \* application bytes that record covers
     ndl |-> 0,            \* Programs started since boot
     img |-> 1,            \* image the host is sending
     image |-> <<>>,       \* bytes of the blocks the driver accepted
     erased |-> {},        \* sectors whose erase the engine reported complete
     written |-> {},       \* sectors a word was programmed in
     lastData |-> 0,       \* address of the last data word handed to the engine
     trail |-> <<>>,       \* sectors erased after the zero-length DNLOAD
     landed |-> FALSE,     \* a data word has been programmed in flash
     sealed |-> FALSE,     \* the last word of the manifest has been programmed
     fault |-> FALSE,      \* the controller failed an operation that mattered
     done |-> FALSE,       \* Program::poll returned Ready(Ok)
     up |-> <<>>,          \* bytes an upload of full-size requests has returned
     upClean |-> TRUE,     \* every request of the upload asked TRANSFER_SIZE bytes
     upDone |-> FALSE,     \* the upload ended with a short or empty reply
     clr |-> 0,            \* CLRSTATUS requests in a row, the first in DfuError
     cut |-> "none"]       \* what a power cut interrupted

\* [u8; n] filled from buf, the rest zero
Padded(buf, n) == [i \in 1 .. n |-> IF i <= Len(buf) THEN buf[i] ELSE 0]

----------------------------------------------------------------------------
(* Flash engine: Memory (bootloader.rs:83-224) *)

\* Memory::unlock: the key sequence opens a locked controller when ul
UnlockOk(m, ul) == ~m.hw.lock \/ ul

\* Memory::erase
MemErase(m, sector, ul) ==
    IF ~UnlockOk(m, ul) THEN Ret(m, Err("Write"))
    ELSE Ret([m EXCEPT
                !.hw = [lock |-> FALSE, bsy |-> TRUE, wrperr |-> FALSE,
                        operr |-> FALSE, op |-> "erase", sector |-> sector,
                        addr |-> 0, bytes |-> <<>>],
                !.memory = [state |-> "Erasing", sector |-> sector, addr |-> 0,
                            to_write |-> 0, src |-> <<>>]],
             Pending)

\* Memory::program.  A word wider than src is read past the end of the slice
\* (the bytes xb), handed to the controller, and the copy into src_owned then
\* panics on the slice index.
MemProgram(m, addr, src, ul, xb) ==
    LET w == ToWrite(addr, Len(src))
        word == [i \in 1 .. w |-> IF i <= Len(src) THEN src[i] ELSE xb]
        kicked == [lock |-> FALSE, bsy |-> TRUE, wrperr |-> FALSE,
                   operr |-> FALSE, op |-> "program", sector |-> 0,
                   addr |-> addr, bytes |-> word]
    IN  IF ~UnlockOk(m, ul) THEN Ret(m, Err("Write"))
        ELSE IF w \notin {1, 2, 4} THEN Panic([m EXCEPT !.hw.lock = FALSE])
        ELSE IF w > Len(src) THEN Panic([m EXCEPT !.hw = kicked])
        ELSE Ret([m EXCEPT
                    !.hw = kicked,
                    !.memory = [state |-> "Programming", sector |-> 0,
                                addr |-> addr, to_write |-> w,
                                src |-> Padded(word, 4)],
                    !.hist.written = @ \cup {SectorOf(addr)}],
                 Pending)

\* Memory::poll
MemPoll(m) ==
    IF m.memory.state = "Idle" THEN Ret(m, Ok(0))
    ELSE IF m.hw.bsy THEN Ret(m, Pending)
    ELSE IF m.memory.state = "Erasing"
        THEN LET good == ~m.hw.wrperr /\ ~m.hw.operr
                         /\ IsErased(flash, m.memory.sector)
                 res == IF m.hw.wrperr THEN Err("Write")
                        ELSE IF m.hw.operr THEN Err("Erase")
                        ELSE IF ~IsErased(flash, m.memory.sector)
                            THEN Err("CheckErased")
                        ELSE Ok(0)
             IN  Ret([m EXCEPT
                        !.memory = MemoryIdle,
                        !.hist.erased =
                            IF good THEN @ \cup {m.memory.sector} ELSE @],
                     res)
    ELSE LET dst == Slice(flash, m.memory.addr, m.memory.to_write)
             res == IF m.hw.wrperr THEN Err("Write")
                    ELSE IF m.hw.operr THEN Err("Programming")
                    ELSE IF dst # SubSeq(m.memory.src, 1, m.memory.to_write)
                        THEN Err("Verify")
                    ELSE Ok(m.memory.to_write)
         IN  Ret([m EXCEPT !.memory = MemoryIdle], res)

----------------------------------------------------------------------------
(* Download driver: Program (dfu/mode.rs:64-276)                            *)
(*                                                                          *)
(* Where the source matches on the result of a call, the arms are an        *)
(* operator of their own that takes the result k of the call.               *)

\* a guard that lets a word start at the very start of the manifest slot
AddressPastManifestStart(addr) == addr > MANIFEST_REGION_START

\* a guard that takes the end of the flash for the end of the application
AddressPastFlash(addr) == addr >= FLASH_END

\* the guard of erase_or_program: the word would start in the manifest slot
AddressOutOfRange(addr) == addr >= MANIFEST_REGION_START

\* erase_or_program that never finds a new sector
NeedsEraseNever(sector, current_sector) == FALSE

\* the sector test of erase_or_program
NeedsErase(sector, current_sector) == sector # current_sector

\* a manifest length counted from the start of the flash
FinalLengthFromBase(addr) == addr - FLASH_BASE

\* the length erase_or_program_manifest records in the manifest
FinalLength(addr) == addr - APPLICATION_REGION_START

\* &data[wr_ptr..data_len]
Unwritten(data, data_len, wr_ptr) == SubSeq(data, wr_ptr + 1, data_len)

SetProgramState(m, pstate, data, data_len, wr_ptr) ==
    [m EXCEPT !.handler.program.pstate = pstate,
              !.handler.program.data = data,
              !.handler.program.data_len = data_len,
              !.handler.program.wr_ptr = wr_ptr]

\* Poll::Pending unless the call returned an error
PendingUnlessErr(k) == IF k.r.k = "Err" THEN k ELSE Ret(k.m, Pending)

\* the ? after memory.program(..) of a block's word, then AwaitProgram
ProgramDataKicked(k, addr, data, data_len, wr_ptr) ==
    IF k.r.k = "Err" THEN k
    ELSE Ret([SetProgramState(k.m, "AwaitProgram", data, data_len, wr_ptr)
                 EXCEPT !.hist.lastData = addr],
             Ok(0))

\* memory.program(addr, &data[wr_ptr..data_len]) of a block
ProgramData(m, data, data_len, wr_ptr, ul, xb) ==
    ProgramDataKicked(
        MemProgram(m, m.handler.program.addr, Unwritten(data, data_len, wr_ptr),
                   ul, xb),
        m.handler.program.addr, data, data_len, wr_ptr)

\* the ? after memory.erase(sector) in erase_or_program, then
\* AwaitEraseBeforeProgram
EraseBeforeProgram(k, data, data_len, wr_ptr) ==
    IF k.r.k = "Err" THEN k
    ELSE Ret(SetProgramState(k.m, "AwaitEraseBeforeProgram", data, data_len, wr_ptr),
             Ok(0))

\* Program::erase_or_program: r is Ok when the new ProgramState is in place
EraseOrProgram(m, data, data_len, wr_ptr, ul, xb) ==
    LET addr == m.handler.program.addr
        sector == SectorOf(addr)
    IN  IF AddressOutOfRange(addr) THEN Ret(m, Err("Address"))
        ELSE IF sector = NoSector THEN Ret(m, Err("Address"))
        ELSE IF NeedsErase(sector, m.handler.program.current_sector)
            THEN EraseBeforeProgram(
                     MemErase([m EXCEPT !.handler.program.current_sector = sector],
                              sector, ul),
                     data, data_len, wr_ptr)
        ELSE ProgramData(m, data, data_len, wr_ptr, ul, xb)

\* the manifest erase_or_program_manifest builds for an image of length bytes
ManifestOf(length) ==
    ManifestBytes(length, ComputeHash(ApplicationRef(flash, length)))

\* the ? after memory.erase(next) in erase_or_program_manifest, then AwaitErase
TrailingErase(k, nx) ==
    IF k.r.k = "Err" THEN k
    ELSE Ret([k.m EXCEPT !.hist.trail = Append(@, nx)], Pending)

\* the ? after memory.program(manifest_start, ..), then AwaitProgramManifest
ManifestKicked(k, manifest) ==
    IF k.r.k = "Err" THEN k
    ELSE Ret([SetProgramState(k.m, "AwaitProgramManifest", manifest,
                              MANIFEST_SIZE, 0)
                 EXCEPT !.handler.program.addr = MANIFEST_REGION_START],
             Pending)

\* Program::erase_or_program_manifest
EraseOrProgramManifest(m, ul, xb) ==
    LET p == m.handler.program
        nx == NextSector(p.current_sector)
    IN  IF nx # NoSector
        THEN TrailingErase(
                 MemErase([SetProgramState(m, "AwaitErase", <<>>, 0, 0)
                              EXCEPT !.handler.program.current_sector = nx],
                          nx, ul),
                 nx)
        ELSE ManifestKicked(
                 MemProgram(m, MANIFEST_REGION_START,
                            ManifestOf(FinalLength(p.addr)), ul, xb),
                 ManifestOf(FinalLength(p.addr)))

\* the ? after memory.erase(current_sector) in Program::new, then the Program
ProgramStarted(k, m, buf, current_sector) ==
    IF k.r.k = "Err" THEN k
    ELSE Ret([k.m EXCEPT
                !.handler =
                    Handler("Download",
                            [current_sector |-> current_sector,
                             addr |-> APPLICATION_REGION_START,
                             pstate |-> "AwaitEraseBeforeProgram",
                             data |-> Padded(buf, TRANSFER_SIZE),
                             data_len |-> Len(buf), wr_ptr |-> 0],
                            0, 0),
                !.hist = [HistInit(flash) EXCEPT
                             !.ndl = m.hist.ndl + 1, !.img = m.hist.img]],
             Ok(0))

\* Program::new
ProgramNew(m, buf, ul) ==
    LET current_sector == SectorOf(APPLICATION_REGION_START)
    IN  IF Len(buf) >= APPLICATION_LENGTH THEN Ret(m, Err("Address"))
        ELSE IF current_sector = NoSector THEN Ret(m, Err("Address"))
        ELSE ProgramStarted(MemErase(m, current_sector, ul), m, buf, current_sector)

\* an update that takes a block whatever the Program is waiting for
ProgramUpdateUnguarded(m, buf, ul, xb) ==
    PendingUnlessErr(
        EraseOrProgram(m, Padded(buf, TRANSFER_SIZE), Len(buf), 0, ul, xb))

\* Program::update
ProgramUpdate(m, buf, ul, xb) ==
    IF m.handler.program.pstate = "AwaitData"
    THEN PendingUnlessErr(
             EraseOrProgram(m, Padded(buf, TRANSFER_SIZE), Len(buf), 0, ul, xb))
    ELSE Ret(m, Err("Unknown"))

\* erase_or_program_manifest never returns Ok: unreachable!()
Finalizing(k) == IF k.r.k = "Ok" THEN Panic(k.m) ELSE k

\* Program::finalize
ProgramFinalize(m, ul, xb) ==
    IF m.handler.program.pstate = "AwaitData"
    THEN Finalizing(EraseOrProgramManifest(m, ul, xb))
    ELSE Ret(m, Err("Unknown"))

\* Program::poll, the arms taken once memory.poll returned Ready(Ok(n)): km is
\* the machine memory.poll left, p the Program it found
ProgramPollReady(km, p, n, ul, xb) ==
    LET moved == [km EXCEPT !.handler.program.addr = p.addr + n]
    IN  CASE p.pstate = "AwaitEraseBeforeProgram" ->
                PendingUnlessErr(
                    ProgramData(km, p.data, p.data_len, p.wr_ptr, ul, xb))
          [] p.pstate = "AwaitProgram" ->
                IF p.wr_ptr + n > p.data_len THEN Panic(moved)
                ELSE IF p.wr_ptr + n = p.data_len
                    THEN Ret(SetProgramState(moved, "AwaitData", <<>>, 0, 0), Pending)
                ELSE PendingUnlessErr(
                         EraseOrProgram(moved, p.data, p.data_len, p.wr_ptr + n,
                                        ul, xb))
          [] p.pstate = "AwaitErase" -> EraseOrProgramManifest(km, ul, xb)
          [] p.pstate = "AwaitProgramManifest" ->
                IF p.wr_ptr + n > Len(p.data) THEN Panic(moved)
                ELSE IF p.wr_ptr + n = Len(p.data)
                    THEN Ret(SetProgramState(moved, "Done", <<>>, 0, 0), Ok(0))
                ELSE MemProgram(
                         SetProgramState(moved, "AwaitProgramManifest", p.data,
                                         p.data_len, p.wr_ptr + n),
                         p.addr + n, SubSeqFrom(p.data, p.wr_ptr + n), ul, xb)
          [] OTHER -> Panic(km)

\* Program::poll after memory.poll returned k
ProgramPolled(k, p, ul, xb) ==
    IF k.r.k # "Ok" THEN k ELSE ProgramPollReady(k.m, p, k.r.n, ul, xb)

\* Program::poll
ProgramPoll(m, ul, xb) ==
    IF m.handler.program.pstate = "AwaitData" THEN Ret(m, Pending)
    ELSE ProgramPolled(MemPoll(m), m.handler.program, ul, xb)

----------------------------------------------------------------------------
(* Download driver: DFUModeImpl (dfu/mode.rs:287-434) *)

\* is_transfer_complete that also takes a word in flight for complete
TransferCompleteEarly(pstate) == pstate \in {"AwaitData", "AwaitProgram"}

\* the test of DFUModeImpl::is_transfer_complete on a Download
TransferComplete(pstate) == pstate = "AwaitData"

\* DFUModeImpl::is_transfer_complete: Ok(1) for Ok(true), Ok(0) for Ok(false)
IsTransferComplete(m) ==
    IF m.handler.tag = "Download"
    THEN IF TransferComplete(m.handler.program.pstate) THEN Ok(1) ELSE Ok(0)
    ELSE Err("Unknown")

\* if res.is_err() { self.state = DFUModeState::Error }
ToError(k) ==
    IF k.r.k = "Err" THEN Ret([k.m EXCEPT !.handler = HandlerError], k.r) ELSE k

\* is_manifestation_in_progress, the Download arm after program.finalize
Finalized(k) ==
    IF k.r.k = "Err" THEN k
    ELSE Ret([k.m EXCEPT !.handler.tag = "Manifetation"], Ok(1))

\* is_manifestation_in_progress, the Manifetation arm after program.poll
ManifestationPolled(k) ==
    IF k.r.k = "Ok"
    THEN Ret([k.m EXCEPT !.handler = HandlerIdle, !.hist.done = TRUE], Ok(0))
    ELSE IF k.r.k = "Err" THEN k
    ELSE Ret(k.m, Ok(1))

\* DFUModeImpl::is_manifestation_in_progress
IsManifestationInProgress(m, ul, xb) ==
    ToError(
        CASE m.handler.tag = "Download" -> Finalized(ProgramFinalize(m, ul, xb))
          [] m.handler.tag = "Manifetation" ->
                ManifestationPolled(ProgramPoll(m, ul, xb))
          [] m.handler.tag = "Idle" -> Ret(m, Ok(0))
          [] OTHER -> Ret(m, Err("Unknown")))

\* DFUModeImpl::poll after program.poll returned k
HandlerPolled(k) ==
    IF k.r.k = "Pending" THEN Ret(k.m, Ok(0))
    ELSE IF k.r.k = "Ok"
        THEN Ret([k.m EXCEPT !.handler = HandlerIdle, !.hist.done = TRUE], Ok(0))
    ELSE ToError(k)

\* DFUModeImpl::poll
HandlerPoll(m, ul, xb) ==
    IF m.handler.tag \in {"Download", "Manifetation"}
    THEN HandlerPolled(ProgramPoll(m, ul, xb))
    ELSE Ret(m, Ok(0))

\* number of bytes DFUModeImpl::upload copies into a buffer of buf_len bytes
UploadSize(buf_len, remaining) == Min(buf_len, remaining)

\* DFUModeImpl::upload once an Idle driver has become Upload
UploadFrom(m, started, buf_len) ==
    IF started.handler.tag # "Upload" THEN Ret(m, Err("Unknown"))
    ELSE IF UploadSize(buf_len, started.handler.up_len) # 0
        THEN Ret([started EXCEPT
                     !.handler.up_ptr =
                         @ + UploadSize(buf_len, started.handler.up_len),
                     !.handler.up_len =
                         @ - UploadSize(buf_len, started.handler.up_len)],
                 Ok(UploadSize(buf_len, started.handler.up_len)))
    ELSE Ret([started EXCEPT !.handler = HandlerIdle], Ok(0))

\* DFUModeImpl::upload into a buffer of buf_len bytes: r is Ok(size) and the
\* bytes copied are the size bytes of flash before up_ptr of the machine returned
HandlerUpload(m, buf_len) ==
    UploadFrom(m,
               IF m.handler.tag = "Idle"
               THEN [m EXCEPT !.handler =
                        Handler("Upload", NoProgram, APPLICATION_REGION_START,
                                CappedLength(ManifestAt(flash).length))]
               ELSE m,
               buf_len)

\* DFUModeImpl::download after Program::new or Program::update returned k
Accepted(k, buf) ==
    IF k.r.k = "Err" THEN k
    ELSE Ret([k.m EXCEPT !.hist.image = @ \o buf], Ok(0))

\* DFUModeImpl::download.  Program::new fails through the ? operator, which
\* returns before the state is set to Error.
HandlerDownload(m, buf, ul, xb) ==
    CASE m.handler.tag = "Idle" -> Accepted(ProgramNew(m, buf, ul), buf)
      [] m.handler.tag = "Download" ->
            Accepted(ToError(ProgramUpdate(m, buf, ul, xb)), buf)
      [] OTHER -> ToError(Ret(m, Err("Unknown")))

----------------------------------------------------------------------------
(* DFU-mode FSM: DFUModeClass (usbd-dfu/src/mode.rs) *)
(*                                                                          *)
(* A handler of a control transfer is an operator from the machine to       *)
(* [m: the machine after it, st: DFUModeClass.state after it, rp: the reply  *)
(* put on the wire].                                                        *)

\* size of the control pipe's buffer, which ControlIn::accept hands to the
\* closure whole; the reply on the wire is cut to wLength
CONTROL_BUFFER == TRANSFER_SIZE

Out(m, st, rp) == [m |-> m, st |-> st, rp |-> rp]
Stall == [NoReply EXCEPT !.kind = "stall"]               \* xfer.reject()
Ack == [NoReply EXCEPT !.kind = "ack"]                   \* ControlOut::accept
Empty == [NoReply EXCEPT !.kind = "empty"]               \* accept_with_static(&[])
DataReply(data) == [NoReply EXCEPT !.kind = "data", !.data = data]

\* accept_get_state
StateReply(st) == [NoReply EXCEPT !.kind = "state", !.code = StateCode(st)]

\* accept_get_status: {status, poll_timeout[0..3], state, 0}
StatusReply(st, poll_timeout) ==
    [kind |-> "status",
     status |-> IF st.s = "DfuError" THEN ErrorCode(st.e) ELSE 0,
     timeout |-> poll_timeout, code |-> StateCode(st), data |-> <<>>]

\* the bytes of a reply on the wire: accept_get_status sends
\* [status, poll_timeout.to_le_bytes()[..3], state, 0], accept_get_state [state]
Wire(rp) ==
    CASE rp.kind = "status" ->
            <<rp.status, rp.timeout % 256, (rp.timeout \div 256) % 256,
              (rp.timeout \div 65536) % 256, rp.code, 0>>
      [] rp.kind = "state" -> <<rp.code>>
      [] OTHER -> rp.data

\* stall_in, stall_out and the catch-all arms of control_in, control_out
StallPkt(m) == Out(m, StErr("StalledPkt"), Stall)

\* a Result<bool> of the driver where the FSM reads a bool: Ok(b) is b; the
\* two sides of the trait disagree on an Err, which reads as either (eb)
AsBool(r, eb) == IF r.k = "Err" THEN eb ELSE r.n = 1

\* a download_sync_in that answers DfuDnloadIdle without asking the driver
DownloadSyncAlwaysIdle(m) ==
    Out(m, St("DfuDnloadIdle"), StatusReply(St("DfuDnloadIdle"), POLL_TIMEOUT))

\* download_sync_in, DFU_GETSTATUS
DownloadSyncGetStatus(m) ==
    LET r == IsTransferComplete(m)
        st == IF r.k = "Err" THEN StErr(r.e)
              ELSE IF r.n = 1 THEN St("DfuDnloadIdle")
              ELSE StT("DfuDnloadBusy", POLL_TIMEOUT)
    IN  Out(m, st, StatusReply(st, POLL_TIMEOUT))

\* manifest_sync_in, DFU_GETSTATUS: the second match guard
ManifestSyncSecond(k2, eb2) ==
    IF ~AsBool(k2.r, eb2)
    THEN Out(k2.m, St("DfuIdle"), StatusReply(St("DfuIdle"), POLL_TIMEOUT))
    ELSE StallPkt(k2.m)

\* manifest_sync_in, DFU_GETSTATUS: the first match guard, then the second
ManifestSyncFirst(k1, ul, xb, eb1, eb2) ==
    IF k1.m.panic THEN Out(k1.m, St("DfuManifestSync"), NoReply)
    ELSE IF AsBool(k1.r, eb1)
        THEN Out(k1.m, StT("DfuManifest", POLL_TIMEOUT),
                 StatusReply(StT("DfuManifest", POLL_TIMEOUT), POLL_TIMEOUT))
    ELSE IF ~caps.IS_MANIFESTATION_TOLERANT THEN StallPkt(k1.m)
    ELSE ManifestSyncSecond(IsManifestationInProgress(k1.m, ul, xb), eb2)

\* manifest_sync_in, DFU_GETSTATUS
ManifestSyncGetStatus(m, ul, xb, eb1, eb2) ==
    ManifestSyncFirst(IsManifestationInProgress(m, ul, xb), ul, xb, eb1, eb2)

\* control_in, DFU_GETSTATUS
GetStatusIn(m, st, ul, xb, eb1, eb2) ==
    CASE st.s = "DfuIdle" -> Out(m, st, StatusReply(st, 1))
      [] st.s = "DfuDnloadSync" -> DownloadSyncGetStatus(m)
      [] st.s = "DfuDnloadIdle" -> Out(m, st, StatusReply(st, POLL_TIMEOUT))
      [] st.s = "DfuManifestSync" -> ManifestSyncGetStatus(m, ul, xb, eb1, eb2)
      [] st.s = "DfuManifestWaitReset" -> Out(m, st, Empty)
      [] st.s = "DfuUploadIdle" -> Out(m, st, StatusReply(st, 1))
      [] st.s = "DfuError" -> Out(m, st, StatusReply(st, 1))
      [] OTHER -> StallPkt(m)

\* a DFU_GETSTATE that is answered with the state wherever it has an arm
GetStateInAnswers(m, st) ==
    CASE st.s \in {"DfuIdle", "DfuDnloadSync", "DfuDnloadIdle", "DfuManifestSync",
                   "DfuManifestWaitReset", "DfuUploadIdle", "DfuError"} ->
            Out(m, st, StateReply(st))
      [] OTHER -> StallPkt(m)

\* control_in, DFU_GETSTATE
GetStateIn(m, st) ==
    CASE st.s \in {"DfuIdle", "DfuDnloadSync", "DfuDnloadIdle", "DfuManifestSync",
                   "DfuUploadIdle", "DfuError"} -> Out(m, st, StateReply(st))
      [] st.s = "DfuManifestWaitReset" -> Out(m, st, Empty)
      [] OTHER -> StallPkt(m)

\* an accept_upload that stays in DfuUploadIdle after a short block
AfterUploadStays(sz, length) == St("DfuUploadIdle")

\* the state accept_upload leaves after the handler returned sz bytes
AfterUpload(sz, length) == IF sz < length THEN St("DfuIdle") ELSE St("DfuUploadIdle")

\* accept_upload after handler.upload returned k
Uploaded(m, k, length) ==
    LET sz == k.r.n
        from == IF m.handler.tag = "Upload" THEN m.handler.up_ptr
                ELSE APPLICATION_REGION_START
        data == Slice(flash, from, Min(sz, length))
        fresh == m.handler.tag # "Upload"
        clean == (fresh \/ m.hist.upClean) /\ length = TRANSFER_SIZE
        sofar == IF fresh THEN <<>> ELSE m.hist.up
    IN  IF k.r.k = "Err" THEN Out(k.m, StErr(k.r.e), DataReply(<<>>))
        ELSE Out([k.m EXCEPT !.hist.upClean = clean,
                             !.hist.up = IF clean THEN sofar \o data ELSE <<>>,
                             !.hist.upDone = clean /\ sz < length],
                 AfterUpload(sz, length), DataReply(data))

\* accept_upload
AcceptUpload(m, length) == Uploaded(m, HandlerUpload(m, CONTROL_BUFFER), length)

\* a control_in whose idle_in accepts DFU_UPLOAD whatever its wLength
UploadInAnyLength(m, st, length) ==
    CASE st.s \in {"DfuIdle", "DfuUploadIdle"} ->
            IF caps.CAN_UPLOAD THEN AcceptUpload(m, length) ELSE StallPkt(m)
      [] st.s = "DfuError" -> Out(m, st, Stall)
      [] st.s = "DfuManifestWaitReset" -> Out(m, st, Empty)
      [] OTHER -> StallPkt(m)

\* control_in, DFU_UPLOAD with wLength = length
UploadIn(m, st, length) ==
    CASE st.s = "DfuIdle" ->
            IF caps.CAN_UPLOAD /\ length <= TRANSFER_SIZE THEN AcceptUpload(m, length)
            ELSE StallPkt(m)
      [] st.s = "DfuUploadIdle" -> AcceptUpload(m, length)
      [] st.s = "DfuError" -> Out(m, st, Stall)
      [] st.s = "DfuManifestWaitReset" -> Out(m, st, Empty)
      [] OTHER -> StallPkt(m)

\* accept_download after handler.download returned k
Downloaded(k) ==
    Out(k.m, IF k.r.k = "Err" THEN StErr(k.r.e) ELSE St("DfuDnloadSync"), Ack)

\* accept_download, and the first arm of download_idle_out
AcceptDownload(m, buf, ul, xb) == Downloaded(HandlerDownload(m, buf, ul, xb))

\* a control_out whose download_idle_out hands every block to the driver
DnloadOutHandsEmpty(m, st, buf, ul, xb) ==
    CASE st.s = "DfuIdle" ->
            IF caps.CAN_DOWNLOAD /\ Len(buf) > 0 THEN AcceptDownload(m, buf, ul, xb)
            ELSE StallPkt(m)
      [] st.s = "DfuDnloadIdle" -> AcceptDownload(m, buf, ul, xb)
      [] st.s = "DfuManifestWaitReset" -> Out(m, st, Ack)
      [] st.s = "DfuError" -> Out(m, st, Stall)
      [] OTHER -> StallPkt(m)

\* a control_out that hands a block to the driver whatever CAN_DOWNLOAD is
DnloadOutUngated(m, st, buf, ul, xb) ==
    CASE st.s = "DfuIdle" ->
            IF Len(buf) > 0 THEN AcceptDownload(m, buf, ul, xb) ELSE StallPkt(m)
      [] st.s = "DfuDnloadIdle" ->
            IF Len(buf) > 0 THEN AcceptDownload(m, buf, ul, xb)
            ELSE IF IsTransferComplete(m) = Ok(1)
                THEN Out(m, St("DfuManifestSync"), Ack)
            ELSE StallPkt(m)
      [] st.s = "DfuManifestWaitReset" -> Out(m, st, Ack)
      [] st.s = "DfuError" -> Out(m, st, Stall)
      [] OTHER -> StallPkt(m)

\* control_out, DFU_DNLOAD carrying buf
DnloadOut(m, st, buf, ul, xb) ==
    CASE st.s = "DfuIdle" ->
            IF caps.CAN_DOWNLOAD /\ Len(buf) > 0 THEN AcceptDownload(m, buf, ul, xb)
            ELSE StallPkt(m)
      [] st.s = "DfuDnloadIdle" ->
            IF Len(buf) > 0 THEN AcceptDownload(m, buf, ul, xb)
            ELSE IF IsTransferComplete(m) = Ok(1)
                THEN Out(m, St("DfuManifestSync"), Ack)
            ELSE StallPkt(m)
      [] st.s = "DfuManifestWaitReset" -> Out(m, st, Ack)
      [] st.s = "DfuError" -> Out(m, st, Stall)
      [] OTHER -> StallPkt(m)

\* an idle_out that accepts DFU_CLRSTATUS as it accepts DFU_ABORT
IdleOutClears(m, st, req) ==
    IF req \in {"ABORT", "CLRSTATUS"} THEN Out(m, st, Ack) ELSE StallPkt(m)

\* idle_out, DFU_ABORT and anything else but DFU_DNLOAD
IdleOut(m, st, req) == IF req = "ABORT" THEN Out(m, st, Ack) ELSE StallPkt(m)

\* upload_out
UploadOut(m, st, req) ==
    IF req = "ABORT" THEN Out(m, St("DfuIdle"), Ack) ELSE StallPkt(m)

\* an error_out that records the stall of a request it rejects
ErrorOutRecordsStall(m, st, req) ==
    IF req = "CLRSTATUS" THEN Out(m, St("DfuIdle"), Ack) ELSE StallPkt(m)

\* error_out
ErrorOut(m, st, req) ==
    IF req = "CLRSTATUS" THEN Out(m, St("DfuIdle"), Ack) ELSE Out(m, st, Stall)

\* control_out, a request without data: DETACH, CLRSTATUS or ABORT
PlainOut(m, st, req) ==
    CASE st.s = "DfuIdle" -> IdleOut(m, st, req)
      [] st.s = "DfuDnloadIdle" -> StallPkt(m)
      [] st.s = "DfuManifestWaitReset" -> Out(m, st, Ack)
      [] st.s = "DfuUploadIdle" -> UploadOut(m, st, req)
      [] st.s = "DfuError" -> ErrorOut(m, st, req)
      [] OTHER -> StallPkt(m)

\* u32::saturating_sub
SaturatingSub(a, b) == IF a > b THEN a - b ELSE 0

\* a poll that stays in the timed state when the timeout has run out
PollTimedStays(k, st, remaining) ==
    IF k.r.k = "Err" THEN Out(k.m, StErr(k.r.e), NoReply)
    ELSE Out(k.m, StT(st.s, remaining), NoReply)

\* a poll that goes back to the sync state whatever the tolerance
PollTimedTolerant(k, st, remaining) ==
    IF k.r.k = "Err" THEN Out(k.m, StErr(k.r.e), NoReply)
    ELSE IF remaining # 0 THEN Out(k.m, StT(st.s, remaining), NoReply)
    ELSE IF st.s = "DfuDnloadBusy" THEN Out(k.m, St("DfuDnloadSync"), NoReply)
    ELSE Out(k.m, St("DfuManifestSync"), NoReply)

\* DFUModeClass::poll in a timed state after handler.poll returned k
PollTimed(k, st, remaining) ==
    IF k.r.k = "Err" THEN Out(k.m, StErr(k.r.e), NoReply)
    ELSE IF remaining # 0 THEN Out(k.m, StT(st.s, remaining), NoReply)
    ELSE IF st.s = "DfuDnloadBusy" THEN Out(k.m, St("DfuDnloadSync"), NoReply)
    ELSE IF caps.IS_MANIFESTATION_TOLERANT
        THEN Out(k.m, St("DfuManifestSync"), NoReply)
    ELSE Out(k.m, St("DfuManifestWaitReset"), NoReply)

\* DFUModeClass::poll
PollStep(m, st, elapsed, ul, xb) ==
    IF st.s \in {"DfuDnloadBusy", "DfuManifest"}
    THEN PollTimed(HandlerPoll(m, ul, xb), st, SaturatingSub(st.t, elapsed))
    ELSE Out(m, st, NoReply)

----------------------------------------------------------------------------
(* DFURuntimeClass (usbd-dfu/src/runtime.rs)                                *)
(*                                                                          *)
(* A handler of the runtime class is an operator to [st: the state after    *)
(* it, rp: the reply, calls: the calls it made on the handler].             *)

RuntimeOut(st, kind, data, calls) ==
    [st |-> st, rp |-> [kind |-> kind, data |-> data], calls |-> calls]

\* DFURuntimeClass::new, with what has been observed since: the last event,
\* the wValue of the last DETACH, the poll time since and whether only polls
\* followed it
RuntimeNew ==
    [state |-> St("AppIdle"), reply |-> [kind |-> "none", data |-> <<>>],
     calls |-> <<>>, last |-> "new", t0 |-> 0, since |-> 0, quiet |-> FALSE]

\* a poll that subtracts without saturating
RuntimePollUnchecked(st, elapsed_ms) ==
    IF st.s # "AppDetach" THEN st
    ELSE IF st.t - elapsed_ms = 0 THEN St("AppIdle")
    ELSE StT("AppDetach", st.t - elapsed_ms)

\* DFURuntimeClass::poll
RuntimePoll(st, elapsed_ms) ==
    IF st.s # "AppDetach" THEN st
    ELSE IF SaturatingSub(st.t, elapsed_ms) = 0 THEN St("AppIdle")
    ELSE StT("AppDetach", SaturatingSub(st.t, elapsed_ms))

\* a reset that hands over to the bootloader whatever the state
RuntimeResetAlways(st) ==
    RuntimeOut(st, "none", <<>>, <<[f |-> "on_reset", arg |-> 0]>>)

\* UsbClass::reset
RuntimeReset(st) ==
    RuntimeOut(st, "none", <<>>,
               IF st.s = "AppDetach" THEN <<[f |-> "on_reset", arg |-> 0]>> ELSE <<>>)

\* control_in
RuntimeControlIn(st, req) ==
    CASE req = "GETSTATE" -> RuntimeOut(st, "data", <<StateCode(st)>>, <<>>)
      [] req = "GETSTATUS" -> RuntimeOut(st, "data", <<0, 1, StateCode(st), 0>>, <<>>)
      [] OTHER -> RuntimeOut(St("AppIdle"), "stall", <<>>, <<>>)

\* a control_out that enters AppDetach without telling the handler
RuntimeControlOutSilent(st, req, value) ==
    IF req = "DETACH"
    THEN RuntimeOut(StT("AppDetach", value), "ack", <<>>, <<>>)
    ELSE RuntimeOut(St("AppIdle"), "stall", <<>>, <<>>)

\* control_out with wValue = value
RuntimeControlOut(st, req, value) ==
    IF req = "DETACH"
    THEN RuntimeOut(StT("AppDetach", value), "ack", <<>>,
                    <<[f |-> "on_detach_request", arg |-> value]>>)
    ELSE RuntimeOut(St("AppIdle"), "stall", <<>>, <<>>)

----------------------------------------------------------------------------
(* The flash controller *)

RECURSIVE BitAnd(_, _)
BitAnd(a, b) ==
    IF a = 0 \/ b = 0 THEN 0
    ELSE (a % 2) * (b % 2) + 2 * BitAnd(a \div 2, b \div 2)

\* flash content after the operation in flight has been carried out: an erase
\* sets every bit of the sector, a program clears the bits that are 0 in the word
Carried(f, h) ==
    IF h.op = "erase"
    THEN [a \in Addrs |-> IF a \in Region(h.sector) THEN ERASED ELSE f[a]]
    ELSE [a \in Addrs |->
            IF a >= h.addr /\ a < h.addr + Len(h.bytes)
            THEN BitAnd(f[a], h.bytes[a - h.addr + 1])
            ELSE f[a]]

HwOutcomes == {"ok", "wrperr", "operr", "silent"}

----------------------------------------------------------------------------
(* Initial states: main of examples/bootloader.rs up to the loop *)

Machine ==
    [handler |-> handler, memory |-> memory, hw |-> hw, hist |-> hist,
     panic |-> FALSE]

\* a constructor that starts in DfuIdle whatever the firmware
InitialStateIdle(firmware_is_valid) == St("DfuIdle")

\* DFUModeClass::new
InitialState(firmware_is_valid) ==
    IF firmware_is_valid THEN St("DfuIdle") ELSE StErr("Firmware")

Init ==
    \E name \in InitFlashes, pinMain \in BOOLEAN, pinNew \in BOOLEAN :
      LET f == InitialFlash(name) IN
        /\ flash = f
        /\ boot = IF IsFirmwareValid(f, pinMain) THEN "app" ELSE "dfu"
        /\ state = IF IsFirmwareValid(f, pinMain) THEN St("DfuIdle")
                   ELSE InitialState(IsFirmwareValid(f, pinNew))
        /\ handler = HandlerIdle
        /\ memory = MemoryIdle
        /\ hw = HwIdle
        /\ caps = BoardCaps
        /\ hist = HistInit(f)
        /\ rt = RuntimeNew

----------------------------------------------------------------------------
(* Actions *)

\* the step of a handler that returned o: a panic ends this run of main with
\* the controller left as it was kicked (on_panic then resets the core).  clr
\* counts the CLRSTATUS requests in a row.
Commit(o, clr) ==
    IF o.m.panic
    THEN /\ boot' = "panic"
         /\ hw' = o.m.hw
         /\ UNCHANGED <<state, handler, memory, flash, caps, hist, rt>>
    ELSE /\ state' = o.st
         /\ handler' = o.m.handler
         /\ memory' = o.m.memory
         /\ hw' = o.m.hw
         /\ hist' = [o.m.hist EXCEPT !.clr = clr]
         /\ UNCHANGED <<flash, boot, caps, rt>>

OobBytes == {0, ERASED}

\* the bytes a word may pick up past the end of its slice: Memory::program
\* reads them only when a single byte is left to write
OobAfter(left) == IF left = 1 THEN OobBytes ELSE {0}
LeftToWrite == handler.program.data_len - handler.program.wr_ptr - memory.to_write
DnloadLengths == {0, 3, 4, TRANSFER_SIZE}

\* outcomes of the key sequence that matter: none once the controller is open
Unlocks == IF hw.lock THEN BOOLEAN ELSE {TRUE}
\* readings of an Err where a bool is expected: only DfuManifestSync has one
ErrBools == IF state.s = "DfuManifestSync" THEN BOOLEAN ELSE {FALSE}

\* host: DFU_GETSTATUS
GetStatus ==
    /\ boot = "dfu"
    /\ \E ul \in Unlocks, xb \in OobAfter(LeftToWrite),
          eb1 \in ErrBools, eb2 \in ErrBools :
           Commit(GetStatusIn(Machine, state, ul, xb, eb1, eb2), 0)

\* host: DFU_GETSTATE
GetState ==
    /\ boot = "dfu"
    /\ Commit(GetStateIn(Machine, state), 0)

UploadLengths == {0, TRANSFER_SIZE - 1, TRANSFER_SIZE, TRANSFER_SIZE + 1}

\* host: DFU_UPLOAD
Upload ==
    /\ boot = "dfu"
    /\ \E length \in UploadLengths : Commit(UploadIn(Machine, state, length), 0)

\* host: DFU_DNLOAD.  A download that starts sends one of the images from its
\* first byte; a later block carries on where the blocks accepted so far end.
Dnload ==
    /\ boot = "dfu"
    /\ \E length \in DnloadLengths :
         LET starts == handler.tag = "Idle" /\ length > 0
             from == IF handler.tag = "Idle" THEN 0 ELSE Len(hist.image)
         IN  /\ starts => hist.ndl < MaxDownloads
             /\ \E img \in (IF starts /\ state.s = "DfuIdle"
                             THEN Images ELSE {hist.img}),
                   ul \in Unlocks, xb \in OobAfter(length) :
                    Commit(DnloadOut([Machine EXCEPT !.hist.img = img], state,
                                     ImageBlock(img, from, length), ul, xb), 0)

\* host: DFU_DETACH, DFU_CLRSTATUS, DFU_ABORT
Detach == boot = "dfu" /\ Commit(PlainOut(Machine, state, "DETACH"), 0)
Abort == boot = "dfu" /\ Commit(PlainOut(Machine, state, "ABORT"), 0)
ClrStatus ==
    /\ boot = "dfu"
    /\ Commit(PlainOut(Machine, state, "CLRSTATUS"),
              IF state.s = "DfuError" THEN 1
              ELSE IF hist.clr = 1 THEN 2 ELSE 0)

\* main loop: dfu.poll(elapsed)
Tick ==
    /\ boot = "dfu"
    /\ \E elapsed \in Elapsed, ul \in Unlocks, xb \in OobAfter(LeftToWrite) :
           Commit(PollStep(Machine, state, elapsed, ul, xb), hist.clr)

\* flash controller: the operation in flight ends and BSY clears
HwComplete ==
    /\ boot \in {"dfu", "panic"}
    /\ hw.bsy
    /\ \E outcome \in HwOutcomes :
           /\ hw' = [hw EXCEPT !.bsy = FALSE, !.wrperr = (outcome = "wrperr"),
                               !.operr = (outcome = "operr")]
           /\ flash' = IF outcome = "ok" THEN Carried(flash, hw) ELSE flash
           /\ hist' = IF outcome # "ok"
                       THEN [hist EXCEPT
                               !.fault = @ \/ outcome # "silent"
                                           \/ Carried(flash, hw) # flash]
                       ELSE IF hw.op = "program"
                       THEN [hist EXCEPT
                               !.landed = @ \/ hw.addr < MANIFEST_REGION_START,
                               !.sealed = @ \/ hw.addr + Len(hw.bytes)
                                                >= MANIFEST_REGION_START + MANIFEST_SIZE]
                       ELSE hist
    /\ UNCHANGED <<state, handler, memory, boot, caps, rt>>

\* power is removed: the core stops and the flash keeps what it holds; main
\* of the next boot decides on IsFirmwareValid(flash, pin)
PowerCut ==
    /\ boot \in {"dfu", "panic"}
    /\ boot' = "off"
    /\ state' = StErr("Firmware")
    /\ handler' = HandlerIdle
    /\ memory' = MemoryIdle
    /\ hw' = HwIdle
    /\ hist' = [hist EXCEPT
                   !.clr = 0,
                   !.cut = IF handler.tag \in {"Download", "Manifetation"}
                           THEN "download" ELSE "idle"]
    /\ UNCHANGED <<flash, caps, rt>>

\* the values the host sends with DFU_DETACH, the times the application's
\* loop hands to DFURuntimeClass::poll
DetachTimeouts == 0 .. MaxDetach
RuntimeElapsed == {1, 2}

\* the step of a runtime handler that returned o on event ev; a DETACH starts
\* the observation of the time polled, any other request or a reset ends it
Deliver(o, ev, value) ==
    /\ rt' = [state |-> o.st, reply |-> o.rp, calls |-> o.calls, last |-> ev,
              t0 |-> IF ev = "detach" THEN value ELSE rt.t0,
              since |-> IF ev = "detach" THEN 0 ELSE rt.since,
              quiet |-> ev = "detach"]
    /\ UNCHANGED <<state, handler, memory, flash, hw, caps, hist>>

\* host, application running: DFU_DETACH with wValue = t
RuntimeDetach ==
    /\ boot = "app" /\ UNCHANGED boot
    /\ \E t \in DetachTimeouts :
           Deliver(RuntimeControlOut(rt.state, "DETACH", t), "detach", t)

\* host, application running: DFU_GETSTATUS, DFU_GETSTATE
RuntimeGetStatus ==
    /\ boot = "app" /\ UNCHANGED boot
    /\ Deliver(RuntimeControlIn(rt.state, "GETSTATUS"), "getstatus", 0)
RuntimeGetState ==
    /\ boot = "app" /\ UNCHANGED boot
    /\ Deliver(RuntimeControlIn(rt.state, "GETSTATE"), "getstate", 0)

\* host, application running: any other class request, IN or OUT
RuntimeOtherIn ==
    /\ boot = "app" /\ UNCHANGED boot
    /\ Deliver(RuntimeControlIn(rt.state, "UPLOAD"), "in", 0)
RuntimeOtherOut ==
    /\ boot = "app" /\ UNCHANGED boot
    /\ \E req \in {"DNLOAD", "CLRSTATUS", "ABORT"} :
           Deliver(RuntimeControlOut(rt.state, req, 0), "out", 0)

\* application loop: dfu.poll(elapsed)
RuntimeTick ==
    /\ boot = "app" /\ UNCHANGED boot
    /\ \E elapsed \in RuntimeElapsed :
           rt' = [rt EXCEPT !.state = RuntimePoll(rt.state, elapsed),
                            !.reply = [kind |-> "none", data |-> <<>>],
                            !.calls = <<>>, !.last = "poll",
                            !.since = IF rt.quiet
                                      THEN Min(rt.since + elapsed, MaxDetach + 1)
                                      ELSE rt.since]
    /\ UNCHANGED <<state, handler, memory, flash, hw, caps, hist>>

\* bus: USB reset while the application runs; on_reset of DFURuntimeImpl
\* resets the core
UsbReset ==
    /\ boot = "app"
    /\ boot' = IF RuntimeReset(rt.state).calls # <<>> THEN "off" ELSE boot
    /\ Deliver(RuntimeReset(rt.state), "reset", 0)

Next ==
    \/ GetStatus
    \/ GetState
    \/ Upload
    \/ Dnload
    \/ Detach
    \/ ClrStatus
    \/ Abort
    \/ Tick
    \/ HwComplete
    \/ PowerCut
    \/ RuntimeDetach
    \/ RuntimeGetStatus
    \/ RuntimeGetState
    \/ RuntimeOtherIn
    \/ RuntimeOtherOut
    \/ RuntimeTick
    \/ UsbReset

Spec == Init /\ [][Next]_vars

\* the board built without manifestation tolerance
NotTolerantCaps == [BoardCaps EXCEPT !.IS_MANIFESTATION_TOLERANT = FALSE]

InitNotTolerant ==
    \E name \in InitFlashes, pinMain \in BOOLEAN, pinNew \in BOOLEAN :
      LET f == InitialFlash(name) IN
        /\ flash = f
        /\ boot = IF IsFirmwareValid(f, pinMain) THEN "app" ELSE "dfu"
        /\ state = IF IsFirmwareValid(f, pinMain) THEN St("DfuIdle")
                   ELSE InitialState(IsFirmwareValid(f, pinNew))
        /\ handler = HandlerIdle
        /\ memory = MemoryIdle
        /\ hw = HwIdle
        /\ caps = NotTolerantCaps
        /\ hist = HistInit(f)
        /\ rt = RuntimeNew

\* the bootloader of either build
SpecEitherCaps == (Init \/ InitNotTolerant) /\ [][Next]_vars

\* the bootloader built with CAN_UPLOAD and CAN_DOWNLOAD each true or false
GatedCaps ==
    {[BoardCaps EXCEPT !.CAN_UPLOAD = u, !.CAN_DOWNLOAD = d] : u, d \in BOOLEAN}

InitGated ==
    \E name \in InitFlashes, pinMain \in BOOLEAN, pinNew \in BOOLEAN :
      LET f == InitialFlash(name) IN
        /\ flash = f
        /\ boot = IF IsFirmwareValid(f, pinMain) THEN "app" ELSE "dfu"
        /\ state = IF IsFirmwareValid(f, pinMain) THEN St("DfuIdle")
                   ELSE InitialState(IsFirmwareValid(f, pinNew))
        /\ handler = HandlerIdle
        /\ memory = MemoryIdle
        /\ hw = HwIdle
        /\ caps \in GatedCaps
        /\ hist = HistInit(f)
        /\ rt = RuntimeNew

SpecGated == InitGated /\ [][Next]_vars

\* The bootloader with a host that reads the status whenever the FSM is in
\* DfuDnloadSync or DfuManifestSync and sends blocks in DfuIdle and
\* DfuDnloadIdle, a main loop that keeps polling, and a controller that ends
\* every operation without an error and lets the unlock through

ProgressGetStatus ==
    /\ boot = "dfu"
    /\ state.s \in {"DfuDnloadSync", "DfuManifestSync"}
    /\ \E xb \in OobAfter(LeftToWrite), eb1 \in ErrBools, eb2 \in ErrBools :
           Commit(GetStatusIn(Machine, state, TRUE, xb, eb1, eb2), 0)

ProgressDnload ==
    /\ boot = "dfu"
    /\ state.s \in {"DfuIdle", "DfuDnloadIdle"}
    /\ \E length \in DnloadLengths :
         LET starts == handler.tag = "Idle" /\ length > 0
             from == IF handler.tag = "Idle" THEN 0 ELSE Len(hist.image)
         IN  /\ starts => hist.ndl < MaxDownloads
             /\ \E img \in (IF starts /\ state.s = "DfuIdle"
                             THEN Images ELSE {hist.img}),
                   xb \in OobAfter(length) :
                    Commit(DnloadOut([Machine EXCEPT !.hist.img = img], state,
                                     ImageBlock(img, from, length), TRUE, xb), 0)

ProgressTick ==
    /\ boot = "dfu"
    /\ \E elapsed \in Elapsed, xb \in OobAfter(LeftToWrite) :
           Commit(PollStep(Machine, state, elapsed, TRUE, xb), hist.clr)

ProgressHw ==
    /\ boot \in {"dfu", "panic"}
    /\ hw.bsy
    /\ hw' = [hw EXCEPT !.bsy = FALSE, !.wrperr = FALSE, !.operr = FALSE]
    /\ flash' = Carried(flash, hw)
    /\ hist' = IF hw.op = "program"
               THEN [hist EXCEPT
                       !.landed = @ \/ hw.addr < MANIFEST_REGION_START,
                       !.sealed = @ \/ hw.addr + Len(hw.bytes)
                                        >= MANIFEST_REGION_START + MANIFEST_SIZE]
               ELSE hist
    /\ UNCHANGED <<state, handler, memory, boot, caps, rt>>

\* on_panic resets the core and main is entered again with the flash as the
\* panic left it; the count of Programs started is kept
ProgressReset ==
    /\ boot = "panic"
    /\ \E pinMain \in BOOLEAN, pinNew \in BOOLEAN :
        /\ boot' = IF IsFirmwareValid(flash, pinMain) THEN "app" ELSE "dfu"
        /\ state' = IF IsFirmwareValid(flash, pinMain) THEN St("DfuIdle")
                    ELSE InitialState(IsFirmwareValid(flash, pinNew))
    /\ handler' = HandlerIdle
    /\ memory' = MemoryIdle
    /\ hw' = HwIdle
    /\ hist' = [HistInit(flash) EXCEPT !.ndl = hist.ndl]
    /\ UNCHANGED <<flash, caps, rt>>

ProgressNext ==
    \/ ProgressGetStatus
    \/ ProgressDnload
    \/ ProgressTick
    \/ ProgressHw
    \/ ProgressReset

\* the loop of main runs for ever, the host does not leave a Sync state
\* unread, and the controller ends what it was given
\* ENABLED <<ProgressTick>>_vars: poll changes the state in the two timed
\* states only
PollDue == boot = "dfu" /\ state.s \in {"DfuDnloadBusy", "DfuManifest"}

\* ENABLED <<ProgressGetStatus>>_vars
StatusDue == boot = "dfu" /\ state.s \in {"DfuDnloadSync", "DfuManifestSync"}

\* ENABLED <<ProgressReset>>_vars
ResetDue == boot = "panic"

\* weak fairness of the poll, the DFU_GETSTATUS, the controller and the reset,
\* with ENABLED written as the state predicate it equals where the action
\* goes through the class
Fairness ==
    /\ []<>(~PollDue) \/ []<><<ProgressTick>>_vars
    /\ []<>(~StatusDue) \/ []<><<ProgressGetStatus>>_vars
    /\ []<>(~ResetDue) \/ []<><<ProgressReset>>_vars
    /\ WF_vars(ProgressHw)

SpecProgress == Init /\ [][ProgressNext]_vars /\ Fairness

----------------------------------------------------------------------------
(* Functional descriptor: get_configuration_descriptors of both classes,    *)
(* for every combination of the constants of Capabilities                    *)

DFU_FUNCTIONAL == 33                         \* 0x21
DFU_VERSION == 256                           \* 0x0100

\* u16::to_le_bytes
ToLeBytes16(v) == <<v % 256, (v \div 256) % 256>>

\* values of a u16 constant tried for DETACH_TIMEOUT and TRANSFER_SIZE
Words16 == {0, DETACH_TIMEOUT, TRANSFER_SIZE, 255, 256, 5000, 65535}

AllCaps ==
    [WILL_DETACH : BOOLEAN, IS_MANIFESTATION_TOLERANT : BOOLEAN,
     CAN_UPLOAD : BOOLEAN, CAN_DOWNLOAD : BOOLEAN,
     DETACH_TIMEOUT : Words16, TRANSFER_SIZE : Words16]

\* the bits of the attributes are disjoint: their bitwise or is their sum
AttributeBit(flag, bit) == IF flag THEN bit ELSE 0

\* DescriptorWriter::write(descriptor_type, descriptor)
Written(descriptor_type, descriptor) ==
    [kind |-> "descriptor", type |-> descriptor_type, data |-> descriptor]

\* DFUModeClass::get_configuration_descriptors, the functional descriptor
ModeDescriptor(c) ==
    LET attributes == AttributeBit(c.WILL_DETACH, 8)
                      + AttributeBit(c.IS_MANIFESTATION_TOLERANT, 4)
                      + AttributeBit(c.CAN_UPLOAD, 2)
                      + AttributeBit(c.CAN_DOWNLOAD, 1)
    IN  Written(DFU_FUNCTIONAL,
                <<attributes>> \o ToLeBytes16(c.DETACH_TIMEOUT)
                    \o ToLeBytes16(c.TRANSFER_SIZE) \o ToLeBytes16(DFU_VERSION))

\* a runtime descriptor with the words high byte first
RuntimeDescriptorBigEndian(c) ==
    LET attributes == AttributeBit(c.WILL_DETACH, 8)
                      + AttributeBit(c.IS_MANIFESTATION_TOLERANT, 4)
                      + AttributeBit(c.CAN_UPLOAD, 2)
                      + AttributeBit(c.CAN_DOWNLOAD, 1)
    IN  Written(DFU_FUNCTIONAL,
                <<attributes, ToLeBytes16(c.DETACH_TIMEOUT)[2],
                  ToLeBytes16(c.DETACH_TIMEOUT)[1],
                  ToLeBytes16(c.TRANSFER_SIZE)[2],
                  ToLeBytes16(c.TRANSFER_SIZE)[1], 1, 0>>)

\* DFURuntimeClass::get_configuration_descriptors, the functional descriptor
RuntimeDescriptor(c) ==
    LET attributes == AttributeBit(c.WILL_DETACH, 8)
                      + AttributeBit(c.IS_MANIFESTATION_TOLERANT, 4)
                      + AttributeBit(c.CAN_UPLOAD, 2)
                      + AttributeBit(c.CAN_DOWNLOAD, 1)
    IN  Written(DFU_FUNCTIONAL,
                <<attributes>> \o ToLeBytes16(c.DETACH_TIMEOUT)
                    \o ToLeBytes16(c.TRANSFER_SIZE) \o ToLeBytes16(DFU_VERSION))

\* a device built with some capabilities, before the host has enumerated it
DescriptorInit ==
    /\ caps \in AllCaps
    /\ flash = BlankFlash
    /\ boot \in {"dfu", "app"}
    /\ state = St("DfuIdle")
    /\ handler = HandlerIdle
    /\ memory = MemoryIdle
    /\ hw = HwIdle
    /\ hist = HistInit(BlankFlash)
    /\ rt = RuntimeNew

\* host: GET_DESCRIPTOR(configuration) while the bootloader runs
EnumerateMode ==
    /\ boot = "dfu"
    /\ rt' = [rt EXCEPT !.reply = ModeDescriptor(caps), !.last = "enumerate"]
    /\ UNCHANGED <<state, handler, memory, flash, hw, boot, caps, hist>>

\* host: GET_DESCRIPTOR(configuration) while the application runs
EnumerateRuntime ==
    /\ boot = "app"
    /\ rt' = [rt EXCEPT !.reply = RuntimeDescriptor(caps), !.last = "enumerate"]
    /\ UNCHANGED <<state, handler, memory, flash, hw, boot, caps, hist>>

DescriptorNext == EnumerateMode \/ EnumerateRuntime

SpecDescriptors == DescriptorInit /\ [][DescriptorNext]_vars

----------------------------------------------------------------------------
(* What a step does to the flash controller *)

\* the step hands the controller a new operation
Kick == hw'.bsy /\ hw' # hw
EraseKick == Kick /\ hw'.op = "erase"
ProgramKick == Kick /\ hw'.op = "program"

\* the word is one of a block: the driver is in Download and the step is not
\* the finalize of manifest_sync_in
DataKick == ProgramKick /\ handler.tag = "Download" /\ state.s # "DfuManifestSync"
ManifestKick == ProgramKick /\ ~DataKick

\* the step is part of the manifestation: finalize, or a poll of Manifetation
Manifesting == state.s = "DfuManifestSync" \/ handler.tag = "Manifetation"

\* the sectors lo .. LAST_SECTOR in ascending order
SectorsFrom(lo) == [i \in 1 .. (LAST_SECTOR - lo + 1) |-> lo + i - 1]

\* the bytes of flash content f where the blocks accepted so far belong
Stored(f, h) == Slice(f, APPLICATION_REGION_START, Len(h.image))

----------------------------------------------------------------------------
(* Claims *)

\* C1: when the FSM leaves DfuManifestSync for DfuIdle with the driver back in
\* Idle (the download completed without error), the first L bytes of the
\* application region are the concatenation B of the blocks the driver accepted
\* and the record at MANIFEST_REGION_START is {length = L, hash = hash(B)}.
C1_DownloadStoresImage ==
    [][(state.s = "DfuManifestSync" /\ state'.s = "DfuIdle"
        /\ handler'.tag = "Idle")
       => /\ Stored(flash', hist') = hist'.image
          /\ ManifestAt(flash') = [length |-> U32Of(Len(hist'.image)),
                                   hash |-> ComputeHash(hist'.image)]]_vars

\* a download of three blocks, the last one short, over the old image, done
C1_Witness ==
    /\ boot = "dfu" /\ state.s = "DfuIdle" /\ handler.tag = "Idle"
    /\ hist.done /\ hist.sealed
    /\ hist.prev = ManifestAt(OldFlash)
    /\ Len(hist.image) = 2 * TRANSFER_SIZE + 4
    /\ ManifestAt(flash).length = U32Of(Len(hist.image))

\* C2: within a download the controller is handed one operation at a time;
\* the words of the blocks go to strictly ascending addresses and none follows
\* a trailing erase; the trailing erases take the sectors after the last one
\* written, in ascending order, each after the one before is complete; the
\* manifest is programmed only once they have all completed through the last
\* sector of the map.
C2_FlashOrder ==
    [][/\ Kick => ~hw.bsy
       /\ DataKick => hw'.addr > hist.lastData /\ hist.trail = <<>>
       /\ (EraseKick /\ Manifesting) =>
             /\ hist'.trail = Append(hist.trail, hw'.sector)
             /\ hw'.sector = SectorOf(hist.lastData) + 1 + Len(hist.trail)
             /\ \A i \in 1 .. Len(hist.trail) : hist.trail[i] \in hist'.erased
       /\ (ManifestKick /\ hw'.addr = MANIFEST_REGION_START) =>
             /\ hist.trail = SectorsFrom(SectorOf(hist.lastData) + 1)
             /\ \A i \in 1 .. Len(hist.trail) : hist.trail[i] \in hist'.erased]_vars

\* the manifest is complete after a download that ended in sector 4: the
\* trailing erases took sectors 5, 6 and 7
C2_Witness ==
    /\ hist.sealed /\ hist.trail = <<5, 6, 7>>
    /\ SectorOf(hist.lastData) = 4

\* C3: a word is programmed (of a block or of the manifest) only in a sector
\* whose erase the engine has reported complete in the same download, by the
\* poll that hands the word over at the latest, and the erase of a sector
\* completes before any word is written in it.
C3_EraseBeforeProgram ==
    [][/\ ProgramKick => SectorOf(hw'.addr) \in hist'.erased
       /\ \A s \in hist'.erased \ hist.erased : s \notin hist.written]_vars

\* words have been programmed in three sectors, over the old image, and the
\* manifest too
C3_Witness ==
    /\ hist.prev = ManifestAt(OldFlash)
    /\ {2, 3, 4, SectorOf(MANIFEST_REGION_START)} \subseteq hist.written
    /\ hist.sealed

\* C4: in DfuDnloadIdle the driver is in Download with sub-state AwaitData,
\* the engine is Idle with nothing in flight, and every byte of the blocks
\* accepted so far in this download is in flash.
C4_DnloadIdleMeansProgrammed ==
    (boot = "dfu" /\ state.s = "DfuDnloadIdle")
    => /\ handler.tag = "Download"
       /\ handler.program.pstate = "AwaitData"
       /\ memory.state = "Idle"
       /\ ~hw.bsy
       /\ Stored(flash, hist) = hist.image

\* DfuDnloadIdle after the third block of a download
C4_Witness ==
    /\ boot = "dfu" /\ state.s = "DfuDnloadIdle"
    /\ Len(hist.image) = 3 * TRANSFER_SIZE
    /\ flash[APPLICATION_REGION_START + 3 * TRANSFER_SIZE - 1] # ERASED

\* the driver holds a Program
InProgram == handler.tag \in {"Download", "Manifetation"}

\* C5, as stated: in every Program state wr_ptr <= data_len and
\* APPLICATION_REGION_START <= addr <= MANIFEST_REGION_START.
C5_AsStated ==
    InProgram
    => /\ handler.program.wr_ptr <= handler.program.data_len
       /\ APPLICATION_REGION_START <= handler.program.addr
       /\ handler.program.addr <= MANIFEST_REGION_START

\* C5, amended: in every Program state wr_ptr <= data_len and
\* APPLICATION_REGION_START <= addr; addr <= MANIFEST_REGION_START holds in the
\* download phase and the trailing erases, while in AwaitProgramManifest addr
\* runs over the manifest slot: addr = MANIFEST_REGION_START + wr_ptr, with
\* wr_ptr below the size of the record.
C5_ProgramBounds ==
    InProgram
    => /\ handler.program.wr_ptr <= handler.program.data_len
       /\ APPLICATION_REGION_START <= handler.program.addr
       /\ IF handler.program.pstate = "AwaitProgramManifest"
          THEN /\ handler.program.data_len = MANIFEST_SIZE
               /\ handler.program.wr_ptr < MANIFEST_SIZE
               /\ handler.program.addr
                     = MANIFEST_REGION_START + handler.program.wr_ptr
          ELSE handler.program.addr <= MANIFEST_REGION_START

\* the last word of the manifest is in flight, addr well past the slot's start
C5_Witness ==
    /\ handler.tag = "Manifetation"
    /\ handler.program.pstate = "AwaitProgramManifest"
    /\ handler.program.wr_ptr = MANIFEST_SIZE - 4
    /\ handler.program.addr > MANIFEST_REGION_START
    /\ hw.bsy

\* the blocks accepted in this download do not fit below the manifest slot
Overrun == handler.tag = "Download" /\ Len(hist.image) > APPLICATION_LENGTH

\* the FSM is polling for the block: GETSTATUS moves it between these
Polling == state.s \in {"DfuDnloadSync", "DfuDnloadBusy"}

\* C6: no word of a block is programmed at or across MANIFEST_REGION_START;
\* while the FSM polls for a block that overruns the slot it never reports
\* DfuDnloadIdle and, unless the controller failed, the driver leaves Download
\* only for Error with the FSM in DfuError(Address); a block that starts at
\* the slot is refused at once with DfuError(Address); CLRSTATUS in
\* DfuError(Address) puts the FSM in DfuIdle.
C6_NoOverrun ==
    [][/\ DataKick => hw'.addr + Len(hw'.bytes) <= MANIFEST_REGION_START
       /\ (boot' = "dfu" /\ Overrun /\ Polling)
          => /\ state'.s # "DfuDnloadIdle"
             /\ (handler'.tag # "Download" /\ ~hist.fault)
                => handler'.tag = "Error" /\ state' = StErr("Address")
       /\ (Dnload /\ state.s = "DfuDnloadIdle" /\ handler.tag = "Download"
           /\ handler.program.addr = MANIFEST_REGION_START
           /\ state'.s # "DfuManifestSync")
          => handler'.tag = "Error" /\ state' = StErr("Address")
       /\ (ClrStatus /\ state = StErr("Address")) => state' = St("DfuIdle")]_vars

\* a block that straddled the start of the slot has ended in DfuError(Address)
\* with the word below the slot programmed and the slot untouched, and
\* CLRSTATUS has put the FSM in DfuIdle
C6_Witness ==
    /\ boot = "dfu" /\ state = St("DfuIdle") /\ hist.clr = 1
    /\ handler.tag = "Error" /\ ~hist.fault
    /\ Len(hist.image) > APPLICATION_LENGTH
    /\ flash[MANIFEST_REGION_START - 1] # ERASED
    /\ flash[MANIFEST_REGION_START] = ERASED

\* the DNLOAD of the first len bytes of the image, the controller unlocking
Retried(len) == DnloadOut(Machine, state, ImageBlock(hist.img, 0, len), TRUE, 0)

\* C7: from every DfuError(kind), errors of the flash engine and of the
\* download driver included, CLRSTATUS puts the FSM in DfuIdle and the DNLOAD
\* of a non-empty block that follows is accepted as a new download: the FSM
\* enters DfuDnloadSync and the driver is in Download.  Stated for the state
\* a CLRSTATUS in DfuError has left, the driver being in Error.
C7_ErrorsRecoverable ==
    (boot = "dfu" /\ hist.clr = 1 /\ handler.tag = "Error")
    => /\ state = St("DfuIdle")
       /\ \A len \in DnloadLengths \ {0} :
             /\ Retried(len).st = St("DfuDnloadSync")
             /\ Retried(len).m.handler.tag = "Download"

\* C8, as stated: after two CLRSTATUS in a row, the first in DfuError, the
\* FSM is in DfuIdle as after one.
C8_AsStated == (boot = "dfu" /\ hist.clr = 2) => state = St("DfuIdle")

\* C8, amended: the first CLRSTATUS in DfuError puts the FSM in DfuIdle; a
\* second one in a row is stalled by idle_out and puts the FSM in
\* DfuError(StalledPkt); neither changes the driver, the engine or the flash.
C8_SecondClrStatusStalls ==
    [][ClrStatus
       => /\ handler' = handler /\ memory' = memory
          /\ hw' = hw /\ flash' = flash
          /\ hist'.clr = 1 => state' = St("DfuIdle")
          /\ hist'.clr = 2 => state' = StErr("StalledPkt")]_vars

\* a second CLRSTATUS after a controller fault has been cleared
C8_Witness ==
    /\ boot = "dfu" /\ hist.clr = 2 /\ state = StErr("StalledPkt")
    /\ handler.tag = "Error" /\ hist.fault

\* an upload of TRANSFER_SIZE requests, begun with the driver Idle after the
\* download completed, has ended with a short or empty reply
UploadedAfterDownload ==
    boot = "dfu" /\ hist.done /\ hist.upDone /\ hist.upClean

\* the 0xFF bytes from the end of image to the end of the application region
Blank(image) == [i \in 1 .. APPLICATION_LENGTH - Len(image) |-> ERASED]

Torn == boot = "off" /\ hist.landed /\ ~hist.sealed

\* C10, as stated: after a download is cut off between the first data word
\* and the completion of the manifest, is_firmware_valid is false on the
\* flash content it leaves, whatever the flash held and whatever the image.
C10_AsStated == Torn => ~IsFirmwareValid(flash, FALSE)

\* C10, amended: after such a cut is_firmware_valid is false unless the
\* manifest is still the one from before the download and the bytes it
\* covers are again the previous firmware, the image sent repeating it.
C10_TornDownload ==
    (Torn /\ IsFirmwareValid(flash, FALSE))
    => ManifestAt(flash) = hist.prev /\ Described(flash) = hist.old

\* a download over an installed firmware was cut while a block was being
\* programmed, part of the old image erased and rewritten: is_firmware_valid is false
C10_Witness ==
    /\ Torn /\ hist.cut = "download"
    /\ hist.prev = ManifestAt(OldFlash)
    /\ ManifestAt(flash) = hist.prev
    /\ Described(flash) # hist.old
    /\ ~IsFirmwareValid(flash, FALSE)

\* the vector table of flash content f passes the checks of is_firmware_valid:
\* the stack pointer in SRAM, the reset vector in the application region
VectorsValid(f) ==
    /\ U32In(U32(Slice(f, APPLICATION_REGION_START, 4)), SRAM_START, SRAM_END)
    /\ U32In(U32(Slice(f, APPLICATION_REGION_START + 4, 4)),
             U32Of(APPLICATION_REGION_START), U32Of(MANIFEST_REGION_START))

\* C11, as stated: whenever is_firmware_valid returns true, manifest.length
\* <= APPLICATION_LENGTH, the stack pointer lies in SRAM, the reset vector in
\* [APPLICATION_REGION_START, MANIFEST_REGION_START) and the boot_mode pin is
\* not asserted.
C11_AsStated ==
    \A pin \in BOOLEAN :
        IsFirmwareValid(flash, pin)
        => /\ ~U32Less(U32Of(APPLICATION_LENGTH), ManifestAt(flash).length)
           /\ VectorsValid(flash) /\ ~pin

\* C11, amended: whenever is_firmware_valid returns true the boot_mode pin is
\* not asserted, the vector table passes both range checks and manifest.hash
\* is the hash of the first min(manifest.length, APPLICATION_LENGTH) bytes of
\* the application region; manifest.length itself is not bounded.
C11_ValidFirmware ==
    \A pin \in BOOLEAN :
        IsFirmwareValid(flash, pin)
        => /\ ~pin /\ VectorsValid(flash)
           /\ Len(Described(flash)) <= APPLICATION_LENGTH
           /\ ComputeHash(Described(flash)) = ManifestAt(flash).hash

\* a download of one block has completed and left a firmware that is valid
C11_Witness ==
    /\ boot = "dfu" /\ hist.done /\ Len(hist.image) = TRANSFER_SIZE
    /\ IsFirmwareValid(flash, FALSE) /\ ~IsFirmwareValid(flash, TRUE)
    /\ ManifestAt(flash).length = U32Of(TRANSFER_SIZE)

\* the reply to a GETSTATUS and to a GETSTATE in the current state
StatusNow == Wire(GetStatusIn(Machine, state, TRUE, 0, FALSE, FALSE).rp)
StateNow == Wire(GetStateIn(Machine, state).rp)

\* C12, as stated: a firmware that is not valid when the DFU-mode class is
\* constructed is not signalled over USB: the FSM is not in DfuError(Firmware)
\* and GETSTATUS carries status 0.
C12_AsStated ==
    boot = "dfu" => state # StErr("Firmware") /\ StatusNow[1] = 0

\* C12, amended: when the firmware is not valid at construction the FSM
\* starts in DfuError(Firmware); GETSTATUS then carries status 0x0A and
\* state 10, GETSTATE 10, and the FSM leaves DfuError(Firmware) only by a
\* CLRSTATUS, for DfuIdle.
C12_FirmwareErrorAtBoot ==
    /\ (boot = "dfu" /\ ~IsFirmwareValid(flash, FALSE))
       => state = StErr("Firmware")
    /\ [][(boot = "dfu" /\ state = StErr("Firmware"))
          => /\ StatusNow = <<ErrorCode("Firmware"), 1, 0, 0, 10, 0>>
             /\ StateNow = <<10>>
             /\ state' # state
                => state' = St("DfuIdle") /\ hist'.clr = 1]_vars

\* the bootloader has started on a blank application region
C12_Witness ==
    /\ boot = "dfu" /\ flash = BlankFlash /\ handler = HandlerIdle
    /\ hist.clr = 0 /\ state = StErr("Firmware")
    /\ StatusNow[1] = 10 /\ StatusNow[5] = 10

\* the driver has accepted one block of at most four bytes and no more, and
\* the controller has not failed
OneShortBlock == Len(hist.image) \in 1 .. 4 /\ ~hist.fault

\* C13: the download of a single block of n bytes, n = 3 included, followed
\* by the zero-length DNLOAD completes without an assertion failure and
\* leaves those n bytes at APPLICATION_REGION_START followed by 0xFF, with
\* manifest.length = n and the hash of those n bytes.  Stated for the block
\* lengths up to four.
C13_SingleBlock ==
    OneShortBlock
    => /\ boot # "panic"
       /\ (boot = "dfu" /\ hist.done)
          => /\ Stored(flash, hist) = hist.image
             /\ flash[APPLICATION_REGION_START + Len(hist.image)] = ERASED
             /\ ManifestAt(flash) = [length |-> U32Of(Len(hist.image)),
                                     hash |-> ComputeHash(hist.image)]

\* the FSM waits in a busy state for an operation of the flash controller
BusyInFlight ==
    boot = "dfu" /\ state.s \in {"DfuDnloadBusy", "DfuManifest"} /\ hw.bsy

\* C14: while the flash controller works and the FSM is in DfuDnloadBusy or
\* DfuManifest, DFU_GETSTATUS is answered with a status reply that carries the
\* busy state, and leaves the FSM and the driver as they are.
C14_GetStatusWhileBusy ==
    BusyInFlight
    => LET o == GetStatusIn(Machine, state, TRUE, 0, FALSE, FALSE)
       IN  /\ o.st = state
           /\ o.rp.kind = "status"
           /\ o.rp.code = StateCode(state)
           /\ o.m = Machine

\* C15: DFU_ABORT in DfuIdle, DfuDnloadIdle or DfuUploadIdle is accepted and
\* leaves the FSM in DfuIdle.
C15_AbortAccepted ==
    (boot = "dfu" /\ state.s \in {"DfuIdle", "DfuDnloadIdle", "DfuUploadIdle"})
    => LET o == PlainOut(Machine, state, "ABORT")
       IN  o.st = St("DfuIdle") /\ o.rp = Ack

\* the six bytes of a DFU_GETSTATUS reply for the state st left by the request
\* and the poll timeout t
StatusBytes(w, st, t) ==
    /\ Len(w) = 6
    /\ w[1] = (IF st.s = "DfuError" THEN ErrorCode(st.e) ELSE 0)
    /\ w[2] + 256 * w[3] + 65536 * w[4] = t
    /\ \A i \in 2 .. 4 : w[i] \in 0 .. 255
    /\ w[5] = StateCode(st)
    /\ w[6] = 0
    /\ (w[1] # 0) <=> (w[5] = 10)

\* C16: an accepted DFU_GETSTATUS reply, of the DFU-mode class and of the
\* runtime class, is six bytes: the status, the poll timeout in three bytes
\* low byte first, the state, and 0; the status is not 0 exactly when the
\* state is DfuError.
C16_StatusReplyFormat ==
    /\ boot = "dfu"
       => LET o == GetStatusIn(Machine, state, TRUE, 0, FALSE, FALSE)
          IN  o.rp.kind = "status" => StatusBytes(Wire(o.rp), o.st, o.rp.timeout)
    /\ (boot = "app" /\ rt.last = "getstatus" /\ rt.reply.kind = "data")
       => \E t \in 0 .. POLL_TIMEOUT : StatusBytes(rt.reply.data, rt.state, t)

\* DFU_UPLOAD with a wLength one past the transfer size
Oversized == UploadIn(Machine, state, TRANSFER_SIZE + 1)

\* C17: in DfuIdle a DFU_UPLOAD whose wLength is above TRANSFER_SIZE is
\* stalled without a call of the upload handler and leaves
\* DfuError(StalledPkt); DFU_GETSTATE then returns 10 and DFU_GETSTATUS the
\* status 15.
C17_OversizedUpload ==
    (boot = "dfu" /\ state.s = "DfuIdle")
    => /\ Oversized = [m |-> Machine, st |-> StErr("StalledPkt"), rp |-> Stall]
       /\ Wire(GetStateIn(Oversized.m, Oversized.st).rp) = <<10>>
       /\ GetStateIn(Oversized.m, Oversized.st).st = StErr("StalledPkt")
       /\ Wire(GetStatusIn(Oversized.m, Oversized.st, TRUE, 0, FALSE, FALSE).rp)
              = <<15, 1, 0, 0, 10, 0>>

\* a DfuIdle state after a finished download where an upload of TRANSFER_SIZE
\* bytes is answered with that many bytes and one of TRANSFER_SIZE + 1 is
\* stalled
C17_Witness ==
    /\ boot = "dfu" /\ state.s = "DfuIdle" /\ hist.done
    /\ UploadIn(Machine, state, TRANSFER_SIZE).rp.kind = "data"
    /\ Len(UploadIn(Machine, state, TRANSFER_SIZE).rp.data) = TRANSFER_SIZE
    /\ Oversized.st = StErr("StalledPkt") /\ Oversized.rp = Stall

TimerAsElapsed ==
    IF rt.since < rt.t0 THEN rt.state = StT("AppDetach", rt.t0 - rt.since)
    ELSE rt.state = St("AppIdle")

\* C19 as stated: after DETACH(t) and polls only, the FSM is AppDetach(t -
\* elapsed) while elapsed < t and AppIdle once elapsed >= t.
C19_AsStated == (boot = "app" /\ rt.quiet) => TimerAsElapsed

\* the part of C19 that holds in every state: as stated when t >= 1 or a poll
\* has run; right after DETACH(0) the FSM is AppDetach(0)
Countdown ==
    (boot = "app" /\ rt.quiet)
    => /\ (rt.t0 >= 1 \/ rt.last = "poll") => TimerAsElapsed
       /\ rt.last = "detach" => rt.state = StT("AppDetach", rt.t0)
       /\ rt.state.t >= 0

\* C19: after DETACH(t) followed by polls only the FSM is AppDetach(t -
\* elapsed) while the poll time elapsed is below t and AppIdle once it has
\* reached t, except that DETACH(0) leaves AppDetach(0) until the first poll;
\* a poll never raises the remaining time and never takes it below 0.
C19_DetachCountdown ==
    /\ Countdown
    /\ [][/\ Countdown'
          /\ (rt.quiet /\ rt'.quiet /\ rt'.last = "poll"
                       /\ rt.state.s = "AppDetach")
             => \/ rt'.state = St("AppIdle")
                \/ /\ rt'.state.s = "AppDetach"
                   /\ rt'.state.t < rt.state.t
                   /\ rt'.state.t > 0]_vars

\* DETACH(MaxDetach) and polls that overshoot it by one: the timer has
\* saturated and the FSM is back in AppIdle
C19_Witness ==
    /\ boot = "app" /\ rt.quiet /\ rt.last = "poll"
    /\ rt.t0 = MaxDetach /\ rt.since = MaxDetach + 1
    /\ rt.state = St("AppIdle")

\* the calls a USB reset makes on the handler when it finds the state st
ResetCalls(st) ==
    IF st.s = "AppDetach" THEN <<[f |-> "on_reset", arg |-> 0]>> ELSE <<>>

\* C20: a USB reset of the runtime class calls on_reset once when the FSM is
\* in AppDetach and makes no call when it is in AppIdle, so none once polls
\* have run the detach timeout out; the reset leaves the FSM state as it is.
C20_ResetHandsOver ==
    /\ boot = "app"
       => /\ RuntimeReset(rt.state).calls = ResetCalls(rt.state)
          /\ RuntimeReset(rt.state).st = rt.state
          /\ (rt.quiet /\ rt.last = "poll" /\ rt.since >= rt.t0)
             => RuntimeReset(rt.state).calls = <<>>
    /\ rt.last = "reset"
       => /\ rt.calls = ResetCalls(rt.state)
          /\ rt.calls # <<>> => boot = "off"

\* a USB reset has found the FSM in AppDetach: on_reset was called and the
\* core has been reset
C20_Witness ==
    /\ rt.last = "reset" /\ rt.state.s = "AppDetach" /\ rt.state.t > 0
    /\ rt.calls = <<[f |-> "on_reset", arg |-> 0]>>
    /\ boot = "off"

\* C21: once DETACH_TIMEOUT ms of poll time have passed since a DFU_DETACH,
\* without a USB reset or another class request, the runtime FSM is back in
\* AppIdle, whatever wValue the host sent.
C21_WaitAtMostDetachTimeout ==
    (boot = "app" /\ rt.quiet /\ rt.since >= DETACH_TIMEOUT)
    => rt.state = St("AppIdle")

\* the range of entry i of the sector table holds address a
Holds(i, a) ==
    SECTORS[i + 1][1] <= a /\ a < SECTORS[i + 1][1] + SECTORS[i + 1][2]

\* C22: the conversion of an address from APPLICATION_REGION_START up to
\* FLASH_END gives the one entry of the sector table whose range holds it (the
\* ranges of the table do not overlap); an address below FLASH_BASE, or at
\* FLASH_END or above, gives Err(Address).  The sector the controller erases is
\* the one the conversion gives for every address in it.
C22_SectorOfAddress ==
    /\ \A i \in 0 .. (LAST_SECTOR - 1) :
          SECTORS[i + 1][1] + SECTORS[i + 1][2] = SECTORS[i + 2][1]
    /\ \A a \in APPLICATION_REGION_START .. (FLASH_END - 1) :
          SectorOf(a) \in 0 .. LAST_SECTOR /\ Holds(SectorOf(a), a)
    /\ \A a \in {0} \cup ((FLASH_BASE - Margin) .. (FLASH_BASE - 1))
                    \cup (FLASH_END .. (FLASH_END + Margin)) :
          SectorOf(a) = NoSector
    /\ hw.op = "erase" => \A a \in Region(hw.sector) : SectorOf(a) = hw.sector

\* the driver has erased the sector it looked up for the manifest, the last
\* of the table
C22_Witness ==
    /\ SectorOf(MANIFEST_REGION_START) = LAST_SECTOR
    /\ LAST_SECTOR \in hist.written
    /\ {i \in 0 .. LAST_SECTOR : Holds(i, MANIFEST_REGION_START)} = {LAST_SECTOR}

\* the flag a bit of the attributes byte stands for
BitSet(byte, bit) == (byte \div bit) % 2 = 1

\* the word two bytes hold, low byte first
Word16(lo, hi) == lo + 256 * hi

\* C23: for every combination of the capabilities, the functional descriptor
\* either class writes has type 0x21 and seven bytes: the attributes, with
\* bit 3 WILL_DETACH, bit 2 IS_MANIFESTATION_TOLERANT, bit 1 CAN_UPLOAD, bit 0
\* CAN_DOWNLOAD and bits 4 to 7 clear, then DETACH_TIMEOUT, TRANSFER_SIZE and
\* 0x0100 as words low byte first; both classes write the same bytes.
C23_FunctionalDescriptor ==
    /\ ModeDescriptor(caps) = RuntimeDescriptor(caps)
    /\ rt.last = "enumerate"
       => /\ rt.reply.type = 33
          /\ Len(rt.reply.data) = 7
          /\ \A i \in 1 .. 7 : rt.reply.data[i] \in 0 .. 255
          /\ rt.reply.data[1] < 16
          /\ BitSet(rt.reply.data[1], 8) <=> caps.WILL_DETACH
          /\ BitSet(rt.reply.data[1], 4) <=> caps.IS_MANIFESTATION_TOLERANT
          /\ BitSet(rt.reply.data[1], 2) <=> caps.CAN_UPLOAD
          /\ BitSet(rt.reply.data[1], 1) <=> caps.CAN_DOWNLOAD
          /\ Word16(rt.reply.data[2], rt.reply.data[3]) = caps.DETACH_TIMEOUT
          /\ Word16(rt.reply.data[4], rt.reply.data[5]) = caps.TRANSFER_SIZE
          /\ rt.reply.data[6] = 0 /\ rt.reply.data[7] = 1

\* the runtime class of a device that detaches by itself and can only be
\* downloaded to has written its descriptor, with a timeout of 5000 ms
C23_Witness ==
    /\ boot = "app" /\ rt.last = "enumerate"
    /\ caps.WILL_DETACH /\ ~caps.IS_MANIFESTATION_TOLERANT
    /\ ~caps.CAN_UPLOAD /\ caps.CAN_DOWNLOAD
    /\ caps.DETACH_TIMEOUT = 5000 /\ caps.TRANSFER_SIZE = 256
    /\ rt.reply.data = <<9, 136, 19, 0, 1, 0, 1>>

\* the reply o.rp of a DFU_GETSTATUS carries the state o.st the request left
Reflects(o) == o.rp.kind = "status" => Wire(o.rp)[5] = StateCode(o.st)

\* a DFU_GETSTATE right after the DFU_GETSTATUS that gave o returns the state
\* byte of its reply and leaves the state
SameByState(o) ==
    o.rp.kind = "status"
    => /\ Wire(GetStateIn(o.m, o.st).rp) = <<Wire(o.rp)[5]>>
       /\ GetStateIn(o.m, o.st).st = o.st

\* C24: the state byte of an accepted DFU_GETSTATUS reply is the code of the
\* state the FSM is in once the request is handled, and a DFU_GETSTATE that
\* follows at once returns the same byte.
C24_StatusIsFinalState ==
    boot = "dfu"
    => \A ul \in Unlocks, eb1 \in ErrBools, eb2 \in ErrBools :
          /\ Reflects(GetStatusIn(Machine, state, ul, 0, eb1, eb2))
          /\ SameByState(GetStatusIn(Machine, state, ul, 0, eb1, eb2))

\* the state download_sync_in should leave after the driver answered r
AfterSync(r) ==
    IF r.k = "Err" THEN StErr(r.e)
    ELSE IF r.n = 1 THEN St("DfuDnloadIdle")
    ELSE StT("DfuDnloadBusy", POLL_TIMEOUT)

\* every request but DFU_GETSTATUS and DFU_GETSTATE is stalled in state st
OthersStalled(st) ==
    /\ \A length \in UploadLengths : UploadIn(Machine, st, length) = StallPkt(Machine)
    /\ \A length \in DnloadLengths, ul \in BOOLEAN :
          DnloadOut(Machine, st, ImageBlock(1, 0, length), ul, 0) = StallPkt(Machine)
    /\ \A req \in {"DETACH", "CLRSTATUS", "ABORT"} :
          PlainOut(Machine, st, req) = StallPkt(Machine)

\* C25: in DfuDnloadSync, DFU_GETSTATUS asks the driver whether the transfer
\* is complete and leaves DfuDnloadIdle if it is, DfuDnloadBusy(POLL_TIMEOUT)
\* if it is not and DfuError(e) if the driver answers Err(e), without changing
\* the driver; DFU_GETSTATE leaves the state; every other request leaves
\* DfuError(StalledPkt).
C25_DnloadSync ==
    (boot = "dfu" /\ state.s = "DfuDnloadSync")
    => /\ GetStatusIn(Machine, state, TRUE, 0, FALSE, FALSE).st
              = AfterSync(IsTransferComplete(Machine))
       /\ GetStatusIn(Machine, state, TRUE, 0, FALSE, FALSE).m = Machine
       /\ GetStatusIn([Machine EXCEPT !.handler = HandlerError], state,
                      TRUE, 0, FALSE, FALSE).st = StErr("Unknown")
       /\ GetStateIn(Machine, state) = Out(Machine, state, StateReply(state))
       /\ OthersStalled(state)

\* DfuDnloadSync with the block programmed: DFU_GETSTATUS leaves DfuDnloadIdle
C25_Witness ==
    /\ boot = "dfu" /\ state.s = "DfuDnloadSync"
    /\ IsTransferComplete(Machine) = Ok(1)
    /\ GetStatusIn(Machine, state, TRUE, 0, FALSE, FALSE).st = St("DfuDnloadIdle")

\* elapsed times handed to poll: none, short of the timeout t, t, and past it
PollTimes(t) == Elapsed \cup {0, 1, t, t + 1}

\* o is what poll(elapsed) should give in DfuDnloadBusy(t) when the one call
\* of the driver's poll returned k (a call that panics does not return)
BusyPolled(o, k, t, elapsed) ==
    /\ o.m = k.m
    /\ ~k.m.panic
       => o.st = (IF k.r.k = "Err" THEN StErr(k.r.e)
                  ELSE IF t > elapsed THEN StT("DfuDnloadBusy", t - elapsed)
                  ELSE St("DfuDnloadSync"))

\* C26: in DfuDnloadBusy(t), poll(elapsed) calls the driver's poll once and
\* leaves DfuDnloadBusy(t - elapsed) when it is Ok and t > elapsed,
\* DfuDnloadSync when it is Ok and t <= elapsed, DfuError(e) when it is
\* Err(e); t is never 0; outside DfuDnloadBusy and DfuManifest poll changes
\* neither the FSM nor the driver.
C26_BusyPoll ==
    boot = "dfu"
    => /\ state.s = "DfuDnloadBusy"
          => /\ state.t > 0
             /\ \A elapsed \in PollTimes(state.t), ul \in Unlocks,
                   xb \in OobAfter(LeftToWrite) :
                   BusyPolled(PollStep(Machine, state, elapsed, ul, xb),
                              HandlerPoll(Machine, ul, xb), state.t, elapsed)
       /\ state.s \notin {"DfuDnloadBusy", "DfuManifest"}
          => \A elapsed \in PollTimes(POLL_TIMEOUT) :
                PollStep(Machine, state, elapsed, TRUE, 0)
                    = Out(Machine, state, NoReply)

\* DfuDnloadBusy with part of the timeout gone, and a driver whose poll fails
C26_Witness ==
    /\ boot = "dfu" /\ state = StT("DfuDnloadBusy", POLL_TIMEOUT - MinElapsed)
    /\ HandlerPoll(Machine, TRUE, 0).r.k = "Err"
    /\ PollStep(Machine, state, MinElapsed, TRUE, 0).st.s = "DfuError"

\* o is what a DFU_DNLOAD with data should give when the driver's download
\* returned k
BlockHanded(o, k) ==
    /\ o.m = k.m
    /\ o.rp = Ack
    /\ o.st = (IF k.r.k = "Err" THEN StErr(k.r.e) ELSE St("DfuDnloadSync"))

\* what a DFU_DNLOAD without data should give for machine m: the driver as it is
EndOfDownload(m) ==
    IF IsTransferComplete(m) = Ok(1) THEN Out(m, St("DfuManifestSync"), Ack)
    ELSE Out(m, StErr("StalledPkt"), Stall)

\* C27: in DfuDnloadIdle, a DFU_DNLOAD with data goes to the driver's download
\* and leaves DfuDnloadSync, or DfuError(e) when the driver returns Err(e); a
\* DFU_DNLOAD without data leaves DfuManifestSync when the driver says the
\* transfer is complete and DfuError(StalledPkt) when it does not, and does
\* not reach the driver's download.
C27_DnloadIdle ==
    (boot = "dfu" /\ state.s = "DfuDnloadIdle")
    => /\ \A length \in DnloadLengths \ {0}, ul \in Unlocks :
          \A xb \in OobAfter(length) :
             BlockHanded(DnloadOut(Machine, state,
                                   ImageBlock(hist.img, Len(hist.image), length),
                                   ul, xb),
                         HandlerDownload(Machine,
                                   ImageBlock(hist.img, Len(hist.image), length),
                                   ul, xb))
       /\ DnloadOut(Machine, state, <<>>, TRUE, 0) = EndOfDownload(Machine)
       /\ \A h \in {HandlerIdle, HandlerError} :
             DnloadOut([Machine EXCEPT !.handler = h], state, <<>>, TRUE, 0)
                 = Out([Machine EXCEPT !.handler = h], StErr("StalledPkt"), Stall)

\* DfuDnloadIdle after a block: the end of the download leaves DfuManifestSync
\* and a further block is handed to the driver
C27_Witness ==
    /\ boot = "dfu" /\ state.s = "DfuDnloadIdle" /\ Len(hist.image) = TRANSFER_SIZE
    /\ DnloadOut(Machine, state, <<>>, TRUE, 0).st = St("DfuManifestSync")
    /\ DnloadOut(Machine, state, ImageBlock(hist.img, TRANSFER_SIZE, 4), TRUE, 0).st
           = St("DfuDnloadSync")

\* the state manifest_sync_in should leave when the driver's answer reads as
\* in_progress
AfterManifestSync(in_progress) ==
    IF in_progress THEN StT("DfuManifest", POLL_TIMEOUT)
    ELSE IF caps.IS_MANIFESTATION_TOLERANT THEN St("DfuIdle")
    ELSE St("DfuManifestWaitReset")

\* the machine with a driver that has nothing in progress
Settled == [Machine EXCEPT !.handler = HandlerIdle]

\* C28: in DfuManifestSync, DFU_GETSTATUS leaves DfuManifest(POLL_TIMEOUT) when
\* the driver reports a manifestation in progress, DfuIdle when it does not and
\* the device is manifestation tolerant, and DfuManifestWaitReset when it does
\* not and the device is not tolerant.
C28_ManifestSync ==
    (boot = "dfu" /\ state.s = "DfuManifestSync")
    => /\ \A ul \in Unlocks :
             LET k == IsManifestationInProgress(Machine, ul, 0) IN
               (k.r.k = "Ok" /\ ~k.m.panic)
               => GetStatusIn(Machine, state, ul, 0, FALSE, FALSE).st
                      = AfterManifestSync(k.r.n = 1)
       /\ GetStatusIn(Settled, state, TRUE, 0, FALSE, FALSE).st
              = AfterManifestSync(FALSE)

\* o is what poll(elapsed) should give in DfuManifest(t) when the one call of
\* the driver's poll returned k (a call that panics does not return)
ManifestPolled(o, k, t, elapsed) ==
    /\ o.m = k.m
    /\ ~k.m.panic
       => o.st = (IF k.r.k = "Err" THEN StErr(k.r.e)
                  ELSE IF t > elapsed THEN StT("DfuManifest", t - elapsed)
                  ELSE IF caps.IS_MANIFESTATION_TOLERANT THEN St("DfuManifestSync")
                  ELSE St("DfuManifestWaitReset"))

\* C29: in DfuManifest(t), poll(elapsed) calls the driver's poll once and
\* leaves DfuManifest(t - elapsed) when it is Ok and t > elapsed; when it is Ok
\* and the timeout has run out it leaves DfuManifestSync on a manifestation
\* tolerant device and DfuManifestWaitReset on one that is not; when it is
\* Err(e) it leaves DfuError(e).
C29_ManifestPoll ==
    (boot = "dfu" /\ state.s = "DfuManifest")
    => \A elapsed \in PollTimes(state.t), ul \in Unlocks,
          xb \in OobAfter(LeftToWrite) :
          ManifestPolled(PollStep(Machine, state, elapsed, ul, xb),
                         HandlerPoll(Machine, ul, xb), state.t, elapsed)

\* a device that is not manifestation tolerant, in DfuManifest with the
\* manifest being written: the poll that ends the timeout leaves
\* DfuManifestWaitReset
C29_Witness ==
    /\ boot = "dfu" /\ state.s = "DfuManifest" /\ ~caps.IS_MANIFESTATION_TOLERANT
    /\ HandlerPoll(Machine, TRUE, 0).r.k = "Ok"
    /\ PollStep(Machine, state, state.t, TRUE, 0).st = St("DfuManifestWaitReset")

\* DFU_UPLOAD with wLength = length is accepted in the state the FSM is in
UploadAccepted(length) ==
    \/ state.s = "DfuUploadIdle"
    \/ state.s = "DfuIdle" /\ caps.CAN_UPLOAD /\ length <= TRANSFER_SIZE

\* o is what an accepted DFU_UPLOAD with wLength = length should give when
\* the handler's upload returned k
UploadAnswered(o, k, length) ==
    /\ o.m.handler = k.m.handler
    /\ k.r.k = "Err" => o.st = StErr(k.r.e) /\ o.rp = DataReply(<<>>)
    /\ (k.r.k = "Ok" /\ k.r.n = length) => o.st = St("DfuUploadIdle")
    /\ (k.r.k = "Ok" /\ k.r.n < length) => o.st = St("DfuIdle")
    /\ k.r.k = "Ok" => o.rp.kind = "data" /\ Len(o.rp.data) = Min(k.r.n, length)

\* C30: an accepted DFU_UPLOAD leaves DfuUploadIdle when the handler returns
\* wLength bytes, DfuIdle when it returns fewer, and DfuError(e) with an empty
\* reply when it returns Err(e); DFU_ABORT in DfuUploadIdle leaves DfuIdle.
C30_UploadStates ==
    boot = "dfu"
    => /\ \A length \in UploadLengths :
             UploadAccepted(length)
             => UploadAnswered(UploadIn(Machine, state, length),
                               HandlerUpload(Machine, CONTROL_BUFFER), length)
       /\ state.s = "DfuUploadIdle"
          => PlainOut(Machine, state, "ABORT") = Out(Machine, St("DfuIdle"), Ack)

\* DfuUploadIdle with less than a block left: the next DFU_UPLOAD of
\* TRANSFER_SIZE bytes returns the rest and leaves DfuIdle
C30_Witness ==
    /\ boot = "dfu" /\ state.s = "DfuUploadIdle"
    /\ HandlerUpload(Machine, CONTROL_BUFFER).r = Ok(OldLength - TRANSFER_SIZE)
    /\ UploadIn(Machine, state, TRANSFER_SIZE).st = St("DfuIdle")
    /\ Len(UploadIn(Machine, state, TRANSFER_SIZE).rp.data) = OldLength - TRANSFER_SIZE

\* every request but DFU_GETSTATUS, DFU_GETSTATE and DFU_CLRSTATUS, and every
\* poll, leaves the machine and the state st, the requests with a stall
Kept(st) ==
    /\ \A length \in UploadLengths : UploadIn(Machine, st, length) = Out(Machine, st, Stall)
    /\ \A length \in DnloadLengths, ul \in BOOLEAN :
          DnloadOut(Machine, st, ImageBlock(1, 0, length), ul, 0)
              = Out(Machine, st, Stall)
    /\ \A req \in {"DETACH", "ABORT"} : PlainOut(Machine, st, req) = Out(Machine, st, Stall)
    /\ \A elapsed \in PollTimes(POLL_TIMEOUT), ul \in BOOLEAN :
          PollStep(Machine, st, elapsed, ul, 0) = Out(Machine, st, NoReply)

\* C31: in DfuError(kind), DFU_GETSTATUS and DFU_GETSTATE are answered and
\* leave the state, DFU_CLRSTATUS leaves DfuIdle, and every other request and
\* every poll leaves DfuError(kind) with the kind it had.
C31_ErrorState ==
    (boot = "dfu" /\ state.s = "DfuError")
    => /\ \A ul \in BOOLEAN :
             GetStatusIn(Machine, state, ul, 0, FALSE, FALSE)
                 = Out(Machine, state, StatusReply(state, 1))
       /\ StatusReply(state, 1).status = ErrorCode(state.e)
       /\ GetStateIn(Machine, state) = Out(Machine, state, StateReply(state))
       /\ PlainOut(Machine, state, "CLRSTATUS") = Out(Machine, St("DfuIdle"), Ack)
       /\ Kept(state)

\* DfuError(Write) after a fault of the controller: a DFU_ABORT is stalled and
\* the kind stays Write
C31_Witness ==
    /\ boot = "dfu" /\ state = StErr("Write") /\ handler.tag = "Error"
    /\ PlainOut(Machine, state, "ABORT").st = StErr("Write")
    /\ PlainOut(Machine, state, "ABORT").rp = Stall

\* addresses of each alignment, at the start and inside the application region
ProgramAddrs == APPLICATION_REGION_START .. (APPLICATION_REGION_START + 7)
SliceLengths == 1 .. 5

\* the width by the words "1 if addr is odd, else 2 if addr & 2 == 2 or
\* src.len() < 4, else 4"
WidthAsWorded(addr, srcLen) ==
    IF addr % 2 = 1 THEN 1
    ELSE IF (addr \div 2) % 2 = 1 \/ srcLen < 4 THEN 2
    ELSE 4

\* the width the code takes: a slice of one byte at a word boundary is
\* written as one byte
WidthInCode(addr, srcLen) ==
    IF addr % 2 = 1 THEN 1
    ELSE IF (addr \div 2) % 2 = 1 THEN 2
    ELSE IF srcLen = 1 THEN 1
    ELSE IF srcLen < 4 THEN 2
    ELSE 4

\* Memory::program(addr, src) called on the idle engine hands one word of
\* width w to the controller
ProgramsWord(k, addr, src, w) ==
    /\ k.m.hw.op = "program" /\ k.m.hw.bsy /\ k.m.hw.addr = addr
    /\ Len(k.m.hw.bytes) = w
    /\ k.r = Pending

EngineFor(pstate) ==
    CASE pstate \in {"AwaitEraseBeforeProgram", "AwaitErase"} -> "Erasing"
      [] pstate \in {"AwaitProgram", "AwaitProgramManifest"} -> "Programming"
      [] OTHER -> "Idle"

\* the call that returned k gave the controller a command: Memory::erase or
\* Memory::program was invoked in it
Invoked(k) == k.m.hw # hw

\* C33: erase() and program() are only invoked while the engine is Idle, a
\* poll of the engine that returns Ready leaves the engine Idle, and the
\* sub-state of the Program agrees with the engine: AwaitEraseBeforeProgram and
\* AwaitErase only while Erasing, AwaitProgram and AwaitProgramManifest only
\* while Programming, AwaitData and Done only while Idle.
C33_EngineAgreement ==
    boot = "dfu"
    => /\ memory.state \in {"Idle", "Erasing", "Programming"}
       /\ MemPoll(Machine).r.k # "Pending" => MemPoll(Machine).m.memory = MemoryIdle
       /\ handler.tag \in {"Download", "Manifetation"}
          => /\ handler.program.pstate
                   \in {"AwaitData", "AwaitEraseBeforeProgram", "AwaitProgram",
                        "AwaitErase", "AwaitProgramManifest", "Done"}
             /\ memory.state = EngineFor(handler.program.pstate)
       /\ state.s \in {"DfuIdle", "DfuDnloadIdle"}
          => \A length \in DnloadLengths \ {0}, ul \in BOOLEAN, xb \in OobAfter(1) :
                Invoked(HandlerDownload(Machine, ImageBlock(1, 0, length), ul, xb))
                    => memory.state = "Idle"
       /\ \A ul \in BOOLEAN, xb \in OobAfter(1) :
             /\ Invoked(IsManifestationInProgress(Machine, ul, xb))
                   => IF handler.tag = "Download" THEN memory.state = "Idle"
                      ELSE MemPoll(Machine).m.memory.state = "Idle"
             /\ Invoked(HandlerPoll(Machine, ul, xb))
                   => MemPoll(Machine).m.memory.state = "Idle"

\* a word of a block has been written and the poll of the driver, after the
\* engine returned Ready, programs the next word
C33_Witness ==
    /\ boot = "dfu" /\ handler.tag = "Download"
    /\ handler.program.pstate = "AwaitProgram"
    /\ memory.state = "Programming" /\ ~hw.bsy
    /\ MemPoll(Machine).m.memory = MemoryIdle
    /\ Invoked(HandlerPoll(Machine, TRUE, 0))
    /\ HandlerPoll(Machine, TRUE, 0).m.memory.state = "Programming"
    /\ HandlerPoll(Machine, TRUE, 0).m.hw.addr = memory.addr + memory.to_write

\* C34: DfuManifestWaitReset is absorbing: every IN request is answered with
\* empty data, every OUT request is accepted, every poll does nothing, and
\* each leaves the state DfuManifestWaitReset and the driver as it was (no
\* download, no upload, no poll of the driver).
C34_WaitResetAbsorbing ==
    (boot = "dfu" /\ state.s = "DfuManifestWaitReset")
    => /\ \A ul \in BOOLEAN, eb1, eb2 \in BOOLEAN :
             GetStatusIn(Machine, state, ul, 0, eb1, eb2) = Out(Machine, state, Empty)
       /\ GetStateIn(Machine, state) = Out(Machine, state, Empty)
       /\ \A length \in UploadLengths :
             UploadIn(Machine, state, length) = Out(Machine, state, Empty)
       /\ \A length \in DnloadLengths, ul \in BOOLEAN :
             DnloadOut(Machine, state, ImageBlock(1, 0, length), ul, 0)
                 = Out(Machine, state, Ack)
       /\ \A req \in {"DETACH", "CLRSTATUS", "ABORT"} :
             PlainOut(Machine, state, req) = Out(Machine, state, Ack)
       /\ \A elapsed \in PollTimes(POLL_TIMEOUT), ul \in BOOLEAN :
             PollStep(Machine, state, elapsed, ul, 0) = Out(Machine, state, NoReply)
       /\ Wire(Empty) = <<>>

\* the build that is not tolerant has run the manifestation timeout out and a
\* DFU_GETSTATE is answered with no byte
C34_Witness ==
    /\ boot = "dfu" /\ state.s = "DfuManifestWaitReset"
    /\ GetStateIn(Machine, state).rp = Empty
    /\ GetStateIn(Machine, state).st.s = "DfuManifestWaitReset"

\* a DFU_DNLOAD accepted in the state st starts a Program at the start of the
\* application region with the erase of its first sector
StartsFresh(o) ==
    o.st.s = "DfuDnloadSync"
    => /\ o.m.handler.tag = "Download"
       /\ o.m.handler.program.addr = APPLICATION_REGION_START
       /\ o.m.handler.program.pstate = "AwaitEraseBeforeProgram"
       /\ o.m.hw.op = "erase" /\ o.m.hw.bsy
       /\ o.m.hw.sector = SectorOf(APPLICATION_REGION_START)

\* a DFU_UPLOAD answered in the state st returns the first bytes of the
\* application region
StartsAtFirstByte(o) ==
    o.rp.kind = "data"
    => /\ o.rp.data = Slice(flash, APPLICATION_REGION_START, Len(o.rp.data))
       /\ o.m.handler.tag = "Upload"
          => o.m.handler.up_ptr <= APPLICATION_REGION_START + CONTROL_BUFFER

\* C35: whenever the FSM is in DfuIdle the driver is Idle, so that a DFU_DNLOAD
\* accepted in DfuIdle starts a fresh Program at the start of the application
\* region with an erase of its first sector, and a DFU_UPLOAD accepted in
\* DfuIdle starts at the first byte of the application region.
C35_IdleDriverIdle ==
    (boot = "dfu" /\ state.s = "DfuIdle")
    => /\ handler.tag = "Idle"
       /\ \A length \in DnloadLengths \ {0} :
             StartsFresh(DnloadOut(Machine, state, ImageBlock(1, 0, length), TRUE, 0))
       /\ \A length \in UploadLengths \ {0} :
             StartsAtFirstByte(UploadIn(Machine, state, length))

\* the call of the driver that returned k did not panic, and a word it handed
\* to Memory::program is no wider than the bytes of the buffer not yet written
NoOverrun(k) ==
    /\ ~k.m.panic
    /\ (Invoked(k) /\ k.m.hw.op = "program"
            /\ k.m.handler.tag \in {"Download", "Manifetation"})
       => /\ k.m.memory.to_write = Len(k.m.hw.bytes)
          /\ k.m.handler.program.wr_ptr + Len(k.m.hw.bytes)
                 <= k.m.handler.program.data_len

\* C36: every word the download driver hands to program() is no wider than
\* the bytes still unwritten in the current buffer (width <= data_len - wr_ptr),
\* so the engine never reads or copies past the slice it was given and wr_ptr
\* never overshoots data_len.
C36_WordWithinBuffer ==
    boot = "dfu"
    => /\ handler.tag \in {"Download", "Manifetation"}
          => handler.program.wr_ptr <= handler.program.data_len
       /\ \A ul \in BOOLEAN, xb \in OobBytes :
             /\ NoOverrun(HandlerPoll(Machine, ul, xb))
             /\ NoOverrun(IsManifestationInProgress(Machine, ul, xb))
             /\ state.s \in {"DfuIdle", "DfuDnloadIdle"}
                => \A length \in DnloadLengths \ {0} :
                      NoOverrun(HandlerDownload(Machine, ImageBlock(1, 0, length),
                                                ul, xb))

\* the request answered with o was refused without a call of the driver
Refused(o) == o = StallPkt(Machine) \/ o = Out(Machine, state, Stall)

\* C37: capability gating in every reachable state: with CAN_DOWNLOAD false
\* the driver's download is never called and DfuDnloadSync, DfuDnloadBusy,
\* DfuDnloadIdle, DfuManifestSync and DfuManifest are unreachable; with
\* CAN_UPLOAD false the driver's upload is never called and DfuUploadIdle is
\* unreachable.
C37_CapabilityGating ==
    boot = "dfu"
    => /\ ~caps.CAN_DOWNLOAD
          => /\ state.s \notin {"DfuDnloadSync", "DfuDnloadBusy", "DfuDnloadIdle",
                                "DfuManifestSync", "DfuManifest"}
             /\ handler.tag \notin {"Download", "Manifetation"}
             /\ hist.image = <<>> /\ hist.ndl = 0
             /\ \A length \in DnloadLengths, ul \in BOOLEAN :
                   Refused(DnloadOut(Machine, state, ImageBlock(1, 0, length), ul, 0))
       /\ ~caps.CAN_UPLOAD
          => /\ state.s # "DfuUploadIdle"
             /\ handler.tag # "Upload"
             /\ \A length \in UploadLengths : Refused(UploadIn(Machine, state, length))

\* a build that can neither download nor upload has stalled a request, the
\* host has cleared the error, and a DFU_DNLOAD and a DFU_UPLOAD are refused
C37_Witness ==
    /\ boot = "dfu" /\ ~caps.CAN_DOWNLOAD /\ ~caps.CAN_UPLOAD
    /\ state.s = "DfuIdle" /\ hist.clr >= 1
    /\ DnloadOut(Machine, state, ImageBlock(1, 0, TRANSFER_SIZE), TRUE, 0)
           = StallPkt(Machine)
    /\ UploadIn(Machine, state, TRANSFER_SIZE) = StallPkt(Machine)

\* C38: a DFU_UPLOAD whose wLength is above TRANSFER_SIZE is rejected in
\* DfuIdle and in DfuUploadIdle alike: the upload handler is not called and
\* the FSM ends in DfuError(StalledPkt).
C38_OversizedUploadAnywhere ==
    (boot = "dfu" /\ state.s \in {"DfuIdle", "DfuUploadIdle"})
    => /\ Oversized.st = StErr("StalledPkt")
       /\ Oversized.rp = Stall
       /\ Oversized.m = Machine

\* C39: on a build that is not manifestation tolerant, whenever the FSM is in
\* DfuManifestWaitReset the driver has finished the manifestation: every
\* trailing sector has been erased, the whole manifest has been programmed and
\* verified, and the engine is Idle.
C39_WaitResetMeansDone ==
    (boot = "dfu" /\ ~caps.IS_MANIFESTATION_TOLERANT
        /\ state.s = "DfuManifestWaitReset")
    => /\ handler.tag = "Idle" /\ hist.done
       /\ memory.state = "Idle" /\ ~hw.bsy
       /\ hist.trail = SectorsFrom(SectorOf(hist.lastData) + 1)
       /\ \A i \in 1 .. Len(hist.trail) : hist.trail[i] \in hist.erased
       /\ hist.sealed
       /\ ManifestAt(flash).length = U32Of(Len(hist.image))

\* a block has been accepted and is not yet reported written
BlockInFlight == boot \in {"dfu", "panic"} /\ state.s \in {"DfuDnloadSync", "DfuDnloadBusy"}

\* the zero-length DFU_DNLOAD has been accepted and the manifestation is not
\* yet reported over
ManifestInFlight ==
    boot \in {"dfu", "panic"} /\ state.s \in {"DfuManifestSync", "DfuManifest"}

\* the FSM is back in DfuIdle with the driver Idle and the manifest of the
\* image downloaded in flash
Manifested ==
    /\ boot = "dfu" /\ state.s = "DfuIdle" /\ handler.tag = "Idle"
    /\ hist.sealed /\ ManifestAt(flash).length = U32Of(Len(hist.image))

\* C40: with polls that keep arriving, a host that reads the status in
\* DfuDnloadSync and DfuManifestSync, and a controller that always ends its
\* operation without an error, every accepted block of data leads to
\* DfuDnloadIdle and the zero-length DFU_DNLOAD leads to DfuIdle with the
\* driver Idle and the manifest written.
C40_Progress ==
    /\ BlockInFlight ~> (boot = "dfu" /\ state.s = "DfuDnloadIdle")
    /\ ManifestInFlight ~> Manifested

============================================================================
